---- MODULE Spec2Model ----
(***************************************************************************)
(* Trust / resource-admission layer of the artifact registry.              *)
(*                                                                         *)
(* The repository carries two token stores, of which a deployment runs     *)
(* one: the in-memory JWT store of utils/auth.utils.ts (issueToken,        *)
(* verifyAndConsume, revokeToken) and the database store of                *)
(* services/auth.service.ts used by middleware/auth.middleware.ts.  The    *)
(* variable `variant` says which one a behaviour is about.                 *)
(*                                                                         *)
(* Time is counted in clock ticks (the milliseconds of Date.now()); one    *)
(* second is MsPerSec ticks, because jsonwebtoken stamps and checks        *)
(* tokens in whole seconds while the store keeps milliseconds.             *)
(***************************************************************************)
EXTENDS Integers, Sequences, FiniteSets, TLC

\* ------------------------------------------------------------------ bounds
MaxUses == 2

LifetimeSec == 1

MsPerSec == 2

MaxTime == 3

MaxIssues == 2

MaxTokens == 2

MaxRequests == 3

MaxDbUses == 1

\* config.upload.rateLimit.max, the threshold of the global limiter
RateLimitMax == 3

\* the floor of the upload limiter's threshold (5 in rate.middleware.ts)
MinUploadRate == 1

\* every pattern up to this length over RegexAlphabet is validated
MaxPatLen == 4

\* the two values of config.regex.maxPatternLength (MAX_REGEX_LENGTH) followed
ShortMaxLength == 2

LongMaxLength == 9

\* rows in the artifacts table
MaxArtifacts == 3

\* calls of one key followed past the limiter's threshold within a window
MaxRejected == 2

\* create, update and delete requests followed
MaxMutations == 3

\* executeWithTimeout calls in progress at once
MaxExecs == 2

\* clients of the pg pool (config.database.max)
PoolSize == 1

\* the largest config.pagination.defaultPageSize followed
MaxPageSize == 2

\* ------------------------------------------------- constants of the source
MAX_REQUESTS == MaxUses

JWT_EXPIRES_IN_SEC == LifetimeSec

JWT_EXPIRES_IN == LifetimeSec * MsPerSec

\* auth.service.ts createToken: max_usage 1000, expires_at now + 10 h
MAX_USAGE == MaxDbUses

TOKEN_LIFETIME == LifetimeSec * MsPerSec

Permissions == {"upload", "search", "download", "admin"}

Procs == {1, 2}

Usernames == {"alice", "root"}

NoRow == [absent |-> TRUE]

\* an X-Authorization header carrying a token the database never issued
UnknownToken == 0

NoHeader == -1

\* the header "bearer " with nothing behind it: the token is the empty string
EmptyBearer == -2

MemIds == {"alice"}

MemRoles == {"user"}

\* a bearer string that is not a JWT signed with JWT_SECRET
Garbage == [id |-> "mallory", role |-> "admin", iat |-> 0, exp |-> 0, sig |-> "bad"]

NoEntry == [absent |-> TRUE]

\* calls followed per issued token: the 2N calls of the exactly-once property
MaxCalls == 2 * MaxUses

VARIABLES
  variant,     \* which token store the deployment runs: "jwt" or "db"
  now,         \* the clock, Date.now()
  tokenStore,  \* auth.utils.ts: Map token -> {remaining, expiresAt, payload}
  memStat,     \* per issued token, since its last issue: verifyAndConsume calls,
               \* successful ones, and whether it was revoked
  memIssued,   \* number of issueToken calls so far
  memRevoked,  \* tokens on which revokeToken has completed
  memLast,     \* the last call of the in-memory store and what it returned or threw
  authEnabled, \* config.auth.enabled
  users,       \* table users: username -> {isAdmin, permissions}
  authTokens,  \* table auth_tokens: token -> {username, usage_count, max_usage, expires_at}
  dbNextToken, \* tokens are fresh random values: the next one createToken generates
  procs,       \* the request each worker is handling and where its handler stands
  dbRequests,  \* number of requests started so far
  dbAuthed,    \* per token: requests that authenticate let through with that token
  dbRevoked,   \* tokens whose logout (deleteToken) has completed
  dbCascaded,  \* users whose DELETE FROM users took auth_tokens rows with it
  gate,        \* one request at the permission gate: the middleware, req.user,
               \* the status sent (0 = none) and whether next() was called
  authEnv,     \* process.env.AUTH_ENABLED
  rateHits,    \* express-rate-limit: hits of the client in the current window,
               \* per limiter
  app,         \* the request travelling through the middleware chain of createApp
  maxPatternLength, \* config.regex.maxPatternLength
  regex,       \* the pattern handed to validateRegexPattern / searchByRegex and
               \* what came back
  artifacts,   \* table artifacts: id -> name
  queries,     \* the ArtifactQuery list the client enumerates with: the names asked for
  pagination,  \* config.pagination
  page,        \* the enumerate request in progress or answered last, and the pages
               \* the client has collected while following the offset header
  exec,        \* the executeWithTimeout calls in progress: where each stands, the
               \* pool client it holds, what it will throw or return
  pool,        \* the pg pool: per client its holder and the session's statement_timeout
  storeUp,     \* the data store answers statements
  rateLimiter, \* the rateLimit instance followed
  limiterStore, \* express-rate-limit MemoryStore of that instance: key -> hits
  rateCalls,   \* per key, the calls of the current window by (subject, route)
  rateLast,    \* the last call that reached the limiter and how it was answered
  registry,    \* table artifacts as the mutating handlers see it: id -> type
  auditLog,    \* the audit events written so far
  mutation,    \* the last create, update or delete request handled and its answer
  nodeEnv,     \* process.env.NODE_ENV
  failures,    \* the last two requests that ended in the error handler
  sweep        \* the last cleanupExpiredTokens: its clock, auth_tokens before and after

memVars == <<tokenStore, memStat, memIssued, memRevoked, memLast>>

dbVars == <<authEnabled, users, authTokens, dbNextToken, procs, dbRequests, dbAuthed, dbRevoked,
            dbCascaded>>

vars == <<variant, now, tokenStore, memStat, memIssued, memRevoked, memLast,
          authEnabled, users, authTokens, dbNextToken, procs, dbRequests, dbAuthed,
          dbRevoked, dbCascaded, gate, authEnv, rateHits, app, maxPatternLength,
          regex, artifacts, queries, pagination, page, exec, pool, storeUp,
          rateLimiter, limiterStore, rateCalls, rateLast, registry, auditLog, mutation,
          nodeEnv, failures, sweep>>

appVars == <<authEnv, rateHits, app>>

regexVars == <<maxPatternLength, regex>>

pageVars == <<artifacts, queries, pagination, page>>

execVars == <<exec, pool, storeUp>>

limiterVars == <<rateLimiter, limiterStore, rateCalls, rateLast>>

auditVars == <<registry, auditLog, mutation>>

errorVars == <<nodeEnv, failures>>

\* state added after the pagination path
lateVars == <<errorVars, sweep>>

moreVars == <<execVars, limiterVars, auditVars, lateVars>>

\* state of the components a token-store or gate operation never touches
otherVars == <<regexVars, pageVars, moreVars>>

\* state outside the query executor, the rate limiter store and the audit trail
baseVars == <<variant, now, memVars, dbVars, gate, appVars, regexVars, pageVars, lateVars>>

\* state of the components before the error handler
coreVars == <<variant, now, memVars, dbVars, gate, appVars, regexVars, pageVars, execVars,
              limiterVars, auditVars>>

\* ----------------------------------------------------------- jsonwebtoken
\* jwt.sign(payload, secret, {expiresIn: s}): iat = floor(Date.now()/1000),
\* exp = iat + s; HS256 is deterministic, so the token string is a function
\* of (id, role, iat).
JwtSign(id, role, t) ==
  [id |-> id, role |-> role, iat |-> t \div MsPerSec,
   exp |-> (t \div MsPerSec) + JWT_EXPIRES_IN_SEC, sig |-> "good"]

\* jwt.verify(token, secret): throws JsonWebTokenError for a token that is
\* not signed with the secret, TokenExpiredError when
\* floor(Date.now()/1000) >= exp.
JwtVerify(token, t) ==
  IF token.sig # "good" THEN "JsonWebTokenError"
  ELSE IF (t \div MsPerSec) >= token.exp THEN "TokenExpiredError"
  ELSE "ok"

MapSet(m, k, v) == [x \in (DOMAIN m) \cup {k} |-> IF x = k THEN v ELSE m[x]]

MapDelete(m, k) == [x \in (DOMAIN m) \ {k} |-> m[x]]

MapGet(m, k) == IF k \in DOMAIN m THEN m[k] ELSE NoEntry

Count(stat, token, outcome) ==
  IF token \in DOMAIN stat
    THEN [stat EXCEPT ![token].calls = @ + 1,
                      ![token].ok = IF outcome = "ok" THEN @ + 1 ELSE @]
    ELSE stat

\* ------------------------------------------------- in-memory token store
issueToken(id, role) ==
  LET token == JwtSign(id, role, now)
      expiresAt == now + JWT_EXPIRES_IN
  IN /\ variant = "jwt"
     /\ memIssued < MaxIssues
     /\ memIssued' = memIssued + 1
     /\ tokenStore' = MapSet(tokenStore, token,
                        [remaining |-> MAX_REQUESTS, expiresAt |-> expiresAt,
                         payload |-> [id |-> id, role |-> role]])
     /\ memStat' = MapSet(memStat, token, [calls |-> 0, ok |-> 0, revoked |-> FALSE])
     /\ memLast' = [op |-> "issueToken", token |-> token, outcome |-> "ok",
                    remaining |-> MAX_REQUESTS]
     /\ UNCHANGED <<variant, now, memRevoked, dbVars, gate, appVars, otherVars>>

\* verifyAndConsume deleting the record in the call that uses it up.
VerifyOutcomeEagerDelete(store, token, t) ==
  LET entry == MapGet(store, token) IN
  IF JwtVerify(token, t) # "ok"
    THEN [outcome |-> JwtVerify(token, t), store |-> store, remaining |-> -1]
  ELSE IF entry = NoEntry
    THEN [outcome |-> "TokenError", store |-> store, remaining |-> -1]
  ELSE IF t > entry.expiresAt
    THEN [outcome |-> "TokenExpiredError", store |-> MapDelete(store, token),
          remaining |-> -1]
  ELSE IF entry.remaining <= 0
    THEN [outcome |-> "TokenUsageExceeded", store |-> MapDelete(store, token),
          remaining |-> -1]
  ELSE [outcome |-> "ok",
        store |-> IF entry.remaining = 1 THEN MapDelete(store, token)
                  ELSE MapSet(store, token, [entry EXCEPT !.remaining = @ - 1]),
        remaining |-> entry.remaining - 1]

\* verifyAndConsume with the usage check off by one (remaining < 0).
VerifyOutcomeOffByOne(store, token, t) ==
  LET entry == MapGet(store, token) IN
  IF JwtVerify(token, t) # "ok"
    THEN [outcome |-> JwtVerify(token, t), store |-> store, remaining |-> -1]
  ELSE IF entry = NoEntry
    THEN [outcome |-> "TokenError", store |-> store, remaining |-> -1]
  ELSE IF t > entry.expiresAt
    THEN [outcome |-> "TokenExpiredError", store |-> MapDelete(store, token),
          remaining |-> -1]
  ELSE IF entry.remaining < 0
    THEN [outcome |-> "TokenUsageExceeded", store |-> MapDelete(store, token),
          remaining |-> -1]
  ELSE [outcome |-> "ok",
        store |-> MapSet(store, token, [entry EXCEPT !.remaining = @ - 1]),
        remaining |-> entry.remaining - 1]

\* The outcome of verifyAndConsume and the store it leaves, as the code
\* computes them.  The function is synchronous: it runs within one tick.
VerifyOutcome(store, token, t) ==
  LET entry == MapGet(store, token) IN
  IF JwtVerify(token, t) # "ok"
    THEN [outcome |-> JwtVerify(token, t), store |-> store, remaining |-> -1]
  ELSE IF entry = NoEntry
    THEN [outcome |-> "TokenError", store |-> store, remaining |-> -1]
  ELSE IF t > entry.expiresAt
    THEN [outcome |-> "TokenExpiredError", store |-> MapDelete(store, token),
          remaining |-> -1]
  ELSE IF entry.remaining <= 0
    THEN [outcome |-> "TokenUsageExceeded", store |-> MapDelete(store, token),
          remaining |-> -1]
  ELSE [outcome |-> "ok",
        store |-> MapSet(store, token, [entry EXCEPT !.remaining = @ - 1]),
        remaining |-> entry.remaining - 1]

verifyAndConsume(token) ==
  LET r == VerifyOutcome(tokenStore, token, now) IN
  /\ variant = "jwt"
  /\ token \in DOMAIN memStat => memStat[token].calls < MaxCalls
  /\ tokenStore' = r.store
  /\ memStat' = Count(memStat, token, r.outcome)
  /\ memLast' = [op |-> "verifyAndConsume", token |-> token, outcome |-> r.outcome,
                 remaining |-> r.remaining]
  /\ UNCHANGED <<variant, now, memIssued, memRevoked, dbVars, gate, appVars, otherVars>>

revokeToken(token) ==
  /\ variant = "jwt"
  /\ tokenStore' = MapDelete(tokenStore, token)
  /\ memStat' = IF token \in DOMAIN memStat
                  THEN [memStat EXCEPT ![token].revoked = TRUE] ELSE memStat
  /\ memRevoked' = memRevoked \cup {token}
  /\ memLast' = [op |-> "revokeToken", token |-> token, outcome |-> "ok",
                 remaining |-> -1]
  /\ UNCHANGED <<variant, now, memIssued, dbVars, gate, appVars, otherVars>>

Tick ==
  /\ now < MaxTime
  /\ now' = now + 1
  /\ UNCHANGED <<variant, memVars, dbVars, gate, appVars, otherVars>>

\* ------------------------------------------------ database token store
\* A worker between requests.
Idle == [pc |-> "idle", arg |-> "none", token |-> NoHeader,
         tokenData |-> NoRow, username |-> "none", user |-> NoRow, status |-> 0]

\* The response is sent: the worker keeps only the status it answered with.
Respond(p, code) == [procs EXCEPT ![p] = [Idle EXCEPT !.status = code]]

\* the permission decision without the admin short-circuit
HasPermissionNoAdmin(user, permission) == permission \in user.permissions

\* UserService.hasPermission / requirePermission: the decision on a user record
HasPermission(user, permission) ==
  "admin" \in user.permissions \/ permission \in user.permissions

\* requirePermission(permission): 0 = next(), otherwise the status sent
RequirePermission(user, permission) ==
  IF user = NoRow THEN 403
  ELSE IF HasPermission(user, permission) THEN 0
  ELSE 401

\* requireAdmin: 0 = next(), otherwise the status sent
RequireAdmin(user) ==
  IF user = NoRow THEN 403
  ELSE IF ~user.isAdmin /\ "admin" \notin user.permissions THEN 401
  ELSE 0

\* The routes of the model and the gate each puts after authenticate.
GuardedRoutes == {"artifact", "users", "logout", "deleteUser"}

Guard(route, arg, user) ==
  IF route = "artifact" THEN RequirePermission(user, arg)
  ELSE IF route = "users" THEN RequireAdmin(user)
  ELSE 0

RouteArgs(route) ==
  IF route = "artifact" THEN Permissions
  ELSE IF route \in {"deleteUser", "login"} THEN Usernames
  ELSE {"none"}

\* What next() leads to after authenticate: the gate of the route and the
\* synchronous start of the route's handler, with the req.user and req.token
\* authenticate attached (none when authentication is disabled).
AfterAuthenticate(p, route, arg, user, token) ==
  LET code == Guard(route, arg, user) IN
  IF code # 0 THEN Respond(p, code)
  ELSE IF route = "logout"
    THEN IF token = NoHeader THEN Respond(p, 400)
         ELSE [procs EXCEPT ![p].pc = "logout_deleteToken"]
  ELSE IF route = "deleteUser"
    THEN [procs EXCEPT ![p].pc = "deleteUser_find", ![p].arg = arg, ![p].user = user]
  ELSE Respond(p, 200)

\* A request arrives at a worker.  PUT /authenticate (login) has no gate; a
\* route behind authenticate runs the synchronous prefix of authenticate.
\* Nothing in authenticate depends on the route, so the model reads the
\* route of the request where authenticate calls next().
StartRequest(p, kind, arg, hdr) ==
  /\ variant = "db"
  /\ procs[p].pc = "idle"
  /\ kind = "gated" => authEnabled
  /\ dbRequests < MaxRequests
  /\ dbRequests' = dbRequests + 1
  /\ procs' = IF kind = "login"
                THEN [procs EXCEPT ![p] = [Idle EXCEPT !.pc = "login_verifyPassword",
                                                          !.arg = arg]]
              ELSE IF hdr = NoHeader
                THEN Respond(p, 403)
              ELSE [procs EXCEPT ![p] = [Idle EXCEPT !.pc = "validateToken_select",
                                                       !.token = hdr]]
  /\ UNCHANGED <<variant, now, memVars, authEnabled, users, authTokens, dbNextToken,
                 dbAuthed, dbRevoked, dbCascaded, gate, appVars, otherVars>>

\* authenticate with config.auth.enabled false: next() at once, no req.user
authenticate_disabled(p, route, arg) ==
  /\ variant = "db"
  /\ procs[p].pc = "idle"
  /\ ~authEnabled
  /\ dbRequests < MaxRequests
  /\ dbRequests' = dbRequests + 1
  /\ procs' = AfterAuthenticate(p, route, arg, NoRow, NoHeader)
  /\ UNCHANGED <<variant, now, memVars, authEnabled, users, authTokens, dbNextToken,
                 dbAuthed, dbRevoked, dbCascaded, gate, appVars, otherVars>>

\* validateToken: SELECT ... FROM auth_tokens WHERE token = $1
validateToken_select(p) ==
  /\ variant = "db"
  /\ procs[p].pc = "validateToken_select"
  /\ procs' = IF procs[p].token \in DOMAIN authTokens
                THEN [procs EXCEPT ![p].pc = "validateToken_check",
                                   ![p].tokenData = authTokens[procs[p].token]]
                ELSE Respond(p, 403)
  /\ UNCHANGED <<variant, now, memVars, authEnabled, dbRequests, users, authTokens, dbNextToken,
                 dbAuthed, dbRevoked, dbCascaded, gate, appVars, otherVars>>

\* validateToken's decision on the row it read, at clock t:
\* "time" / "usage" = delete the token and return null, "valid" = return username
ValidateDecision(tokenData, t) ==
  IF tokenData.expires_at < t THEN "time"
  ELSE IF tokenData.usage_count >= tokenData.max_usage THEN "usage"
  ELSE "valid"

validateToken_check(p) ==
  /\ variant = "db"
  /\ procs[p].pc = "validateToken_check"
  /\ procs' = IF ValidateDecision(procs[p].tokenData, now) = "valid"
                THEN [procs EXCEPT ![p].pc = "incrementTokenUsage",
                                   ![p].username = procs[p].tokenData.username,
                                   ![p].tokenData = NoRow]
                ELSE [procs EXCEPT ![p].pc = "validateToken_delete"]
  /\ UNCHANGED <<variant, now, memVars, authEnabled, dbRequests, users, authTokens, dbNextToken,
                 dbAuthed, dbRevoked, dbCascaded, gate, appVars, otherVars>>

\* deleteToken: DELETE FROM auth_tokens WHERE token = $1
DeleteToken(rows, token) == [x \in (DOMAIN rows) \ {token} |-> rows[x]]

validateToken_delete(p) ==
  /\ variant = "db"
  /\ procs[p].pc = "validateToken_delete"
  /\ authTokens' = DeleteToken(authTokens, procs[p].token)
  /\ procs' = Respond(p, 403)
  /\ UNCHANGED <<variant, now, memVars, authEnabled, dbRequests, users, dbNextToken, dbAuthed,
                 dbRevoked, dbCascaded, gate, appVars, otherVars>>

\* an authenticate that forgets the UPDATE
IncrementUsageNever(rows, token) == rows

\* incrementTokenUsage: UPDATE auth_tokens SET usage_count = usage_count + 1
IncrementUsage(rows, token) ==
  IF token \in DOMAIN rows
    THEN [rows EXCEPT ![token].usage_count = @ + 1]
    ELSE rows

incrementTokenUsage(p) ==
  /\ variant = "db"
  /\ procs[p].pc = "incrementTokenUsage"
  /\ authTokens' = IncrementUsage(authTokens, procs[p].token)
  /\ procs' = [procs EXCEPT ![p].pc = "authenticate_findUser"]
  /\ UNCHANGED <<variant, now, memVars, authEnabled, dbRequests, users, dbNextToken, dbAuthed,
                 dbRevoked, dbCascaded, gate, appVars, otherVars>>

\* authenticate after findByUsername: attach req.user and call next(); the
\* gate of the route and the synchronous start of its handler run in the
\* same turn.
authenticate_findUser(p, route, arg) ==
  LET me == procs[p]
      user == IF me.username \in DOMAIN users THEN users[me.username] ELSE NoRow
  IN /\ variant = "db"
     /\ me.pc = "authenticate_findUser"
     /\ IF user = NoRow
          THEN /\ procs' = Respond(p, 403)
               /\ UNCHANGED dbAuthed
          ELSE /\ dbAuthed' = [dbAuthed EXCEPT ![me.token] = @ + 1]
               /\ procs' = AfterAuthenticate(p, route, arg, user, me.token)
     /\ UNCHANGED <<variant, now, memVars, authEnabled, dbRequests, users, authTokens,
                    dbNextToken, dbRevoked, dbCascaded, gate, appVars, otherVars>>

\* logout: await authService.deleteToken(req.token)
logout_deleteToken(p) ==
  /\ variant = "db"
  /\ procs[p].pc = "logout_deleteToken"
  /\ authTokens' = DeleteToken(authTokens, procs[p].token)
  /\ dbRevoked' = dbRevoked \cup {procs[p].token}
  /\ procs' = Respond(p, 200)
  /\ UNCHANGED <<variant, now, memVars, authEnabled, dbRequests, users, dbNextToken, dbAuthed,
                 dbCascaded, gate, appVars, otherVars>>

\* deleteUser: findByUsername(username), then the self-or-admin check
deleteUser_find(p) ==
  LET me == procs[p]
      isAdmin == me.user # NoRow /\ (me.user.isAdmin \/ "admin" \in me.user.permissions)
      isSelf == me.user # NoRow /\ me.user.username = me.arg
  IN /\ variant = "db"
     /\ me.pc = "deleteUser_find"
     /\ procs' = IF me.arg \notin DOMAIN users THEN Respond(p, 404)
                  ELSE IF ~isSelf /\ ~isAdmin THEN Respond(p, 401)
                  ELSE [procs EXCEPT ![p].pc = "deleteUser_tokens"]
     /\ UNCHANGED <<variant, now, memVars, authEnabled, dbRequests, users, authTokens, dbNextToken,
                    dbAuthed, dbRevoked, dbCascaded, gate, appVars, otherVars>>

\* deleteAllUserTokens: DELETE FROM auth_tokens WHERE username = $1
DeleteAllUserTokens(rows, username) ==
  [x \in {y \in DOMAIN rows : rows[y].username # username} |-> rows[x]]

deleteUser_tokens(p) ==
  /\ variant = "db"
  /\ procs[p].pc = "deleteUser_tokens"
  /\ authTokens' = DeleteAllUserTokens(authTokens, procs[p].arg)
  /\ procs' = [procs EXCEPT ![p].pc = "deleteUser_user"]
  /\ UNCHANGED <<variant, now, memVars, authEnabled, dbRequests, users, dbNextToken, dbAuthed,
                 dbRevoked, dbCascaded, gate, appVars, otherVars>>

\* UserService.deleteUser: DELETE FROM users WHERE username = $1; the rows of
\* auth_tokens that reference the user go with it (ON DELETE CASCADE).
CascadeTokensMissing(rows, username) == rows

CascadeTokens(rows, username) == DeleteAllUserTokens(rows, username)

deleteUser_user(p) ==
  /\ variant = "db"
  /\ procs[p].pc = "deleteUser_user"
  /\ users' = [u \in (DOMAIN users) \ {procs[p].arg} |-> users[u]]
  /\ authTokens' = CascadeTokens(authTokens, procs[p].arg)
  /\ dbCascaded' = IF \E x \in DOMAIN authTokens : authTokens[x].username = procs[p].arg
                     THEN dbCascaded \cup {procs[p].arg} ELSE dbCascaded
  /\ procs' = Respond(p, 200)
  /\ UNCHANGED <<variant, now, memVars, authEnabled, dbRequests, dbNextToken, dbAuthed, dbRevoked,
                 gate, appVars, otherVars>>

\* login: userService.verifyPassword (findByUsername, bcrypt.compare), then
\* createToken computes expiresAt = Date.now() + 10 h before its INSERT runs.
login_verifyPassword(p, passwordOk) ==
  LET me == procs[p] IN
  /\ variant = "db"
  /\ me.pc = "login_verifyPassword"
  /\ procs' = IF me.arg \notin DOMAIN users \/ ~passwordOk THEN Respond(p, 401)
                ELSE [procs EXCEPT ![p].pc = "login_createToken",
                        ![p].tokenData = [username |-> me.arg, usage_count |-> 0,
                                          max_usage |-> MAX_USAGE,
                                          expires_at |-> now + TOKEN_LIFETIME]]
  /\ UNCHANGED <<variant, now, memVars, authEnabled, dbRequests, users, authTokens, dbNextToken,
                 dbAuthed, dbRevoked, dbCascaded, gate, appVars, otherVars>>

\* createToken: INSERT INTO auth_tokens ...; username REFERENCES users, so the
\* INSERT fails (500) when the user row is gone.
login_createToken(p) ==
  LET me == procs[p] IN
  /\ variant = "db"
  /\ me.pc = "login_createToken"
  /\ dbNextToken <= MaxTokens
  /\ IF me.arg \in DOMAIN users
       THEN /\ authTokens' = [x \in (DOMAIN authTokens) \cup {dbNextToken} |->
                                IF x = dbNextToken THEN me.tokenData ELSE authTokens[x]]
            /\ dbNextToken' = dbNextToken + 1
            /\ procs' = Respond(p, 200)
       ELSE /\ procs' = Respond(p, 500)
            /\ UNCHANGED <<authTokens, dbNextToken>>
  /\ UNCHANGED <<variant, now, memVars, authEnabled, dbRequests, users, dbAuthed, dbRevoked,
                 dbCascaded, gate, appVars, otherVars>>

\* ------------------------------------------------------- permission gate
\* UserService.hasPermission(username, permission) over the users table
UserServiceHasPermission(table, username, permission) ==
  IF username \notin DOMAIN table THEN FALSE
  ELSE IF "admin" \in table[username].permissions THEN TRUE
  ELSE permission \in table[username].permissions

\* The user records register can create: any isAdmin flag with any
\* permissions list.
UserRecords ==
  {[username |-> "alice", isAdmin |-> a, permissions |-> ps] :
     a \in BOOLEAN, ps \in SUBSET Permissions}

GateIdle == [mw |-> "none", user |-> NoRow, permission |-> "none", status |-> 0,
             next |-> FALSE, pc |-> "idle", hdr |-> NoHeader]

\* A request reaches a permission middleware with the req.user that
\* authenticate attached (none when authenticate did not attach one).
GateArrive(mw, user, permission) ==
  /\ variant = "gate"
  /\ gate.pc \in {"idle", "done"}
  /\ gate' = [GateIdle EXCEPT !.mw = mw, !.user = user, !.permission = permission,
                              !.pc = "run"]
  /\ UNCHANGED <<variant, now, memVars, dbVars, appVars, otherVars>>

requirePermission ==
  /\ variant = "gate"
  /\ gate.pc = "run"
  /\ gate.mw = "requirePermission"
  /\ LET code == RequirePermission(gate.user, gate.permission) IN
     gate' = [gate EXCEPT !.pc = "done", !.status = code, !.next = (code = 0)]
  /\ UNCHANGED <<variant, now, memVars, dbVars, appVars, otherVars>>

requireAdmin ==
  /\ variant = "gate"
  /\ gate.pc = "run"
  /\ gate.mw = "requireAdmin"
  /\ LET code == RequireAdmin(gate.user) IN
     gate' = [gate EXCEPT !.pc = "done", !.status = code, !.next = (code = 0)]
  /\ UNCHANGED <<variant, now, memVars, dbVars, appVars, otherVars>>

\* A request reaches optionalAuthenticate with the X-Authorization header hdr.
OptionalArrive(hdr) ==
  /\ variant = "gate"
  /\ gate.pc \in {"idle", "done"}
  /\ gate' = [GateIdle EXCEPT !.mw = "optionalAuthenticate", !.hdr = hdr, !.pc = "run"]
  /\ UNCHANGED <<variant, now, memVars, dbVars, appVars, otherVars>>

\* the identity optionalAuthenticate writes into req.user
DefaultAdmin == [username |-> "ece30861defaultadminuser", isAdmin |-> TRUE]

\* optionalAuthenticate: no header or authentication disabled: next(); else
\* any non-empty token gets the default admin identity, then next()
optionalAuthenticate ==
  /\ variant = "gate"
  /\ gate.pc = "run"
  /\ gate.mw = "optionalAuthenticate"
  /\ gate' = [gate EXCEPT !.pc = "done", !.next = TRUE,
                          !.user = IF gate.hdr = NoHeader \/ ~authEnabled THEN NoRow
                                   ELSE IF gate.hdr = EmptyBearer THEN NoRow
                                   ELSE DefaultAdmin]
  /\ UNCHANGED <<variant, now, memVars, dbVars, appVars, otherVars>>

\* UserService.hasPermission called for the user of the request; `next`
\* holds the boolean it returns.
hasPermission ==
  /\ variant = "gate"
  /\ gate.pc = "run"
  /\ gate.mw = "hasPermission"
  /\ LET table == IF gate.user = NoRow THEN << >>
                   ELSE [u \in {gate.user.username} |-> gate.user]
     IN gate' = [gate EXCEPT !.pc = "done",
                             !.next = UserServiceHasPermission(table, "alice",
                                                               gate.permission)]
  /\ UNCHANGED <<variant, now, memVars, dbVars, appVars, otherVars>>

\* ------------------------------------------------ middleware chain of the app
\* One client sends requests one after another through createApp's chain:
\* globalRateLimiter, enforceUploadSize, then the middleware list of the
\* route and its handler.  The interleavings of authenticate's awaits are
\* followed in the database token store above; here authenticate is the
\* whole middleware of the one request in flight.
AppRoutes == {"createArtifact", "enumerate", "byRegEx", "getArtifact", "deleteArtifact"}

RouteChain(route) ==
  IF route = "createArtifact" THEN <<"authenticate", "requirePermission">>
  ELSE IF route \in {"enumerate", "byRegEx"}
    THEN <<"authenticate", "requirePermission", "uploadRateLimiter">>
  ELSE IF route = "deleteArtifact" THEN <<"authenticate", "requireAdmin">>
  ELSE <<"authenticate">>

AppChain(route) == <<"globalRateLimiter", "enforceUploadSize">> \o RouteChain(route)

RoutePermission(route) == IF route = "createArtifact" THEN "upload" ELSE "search"

\* the threshold of a limiter
RateMax(limiter) ==
  IF limiter = "globalRateLimiter" THEN RateLimitMax
  ELSE IF MinUploadRate > RateLimitMax \div 3 THEN MinUploadRate
  ELSE RateLimitMax \div 3

AppIdle == [pc |-> "idle", route |-> "none", hdr |-> NoHeader, tooLarge |-> FALSE,
            stage |-> 0, user |-> NoRow, status |-> 0, sent |-> 0,
            passed |-> << >>, consumed |-> FALSE, handled |-> FALSE]

\* the stage the request in flight stands at
AppAt(stage) ==
  /\ variant = "app"
  /\ app.pc = "run"
  /\ app.stage <= Len(AppChain(app.route))
  /\ AppChain(app.route)[app.stage] = stage

\* a middleware that sent a status and fell through to next() as well
StageResultFallThrough(code) == [send |-> code # 0, next |-> TRUE]

\* A middleware ends in one of two ways: res.status(code)...; return, or
\* next(); return.  code 0 stands for next().
StageResult(code) == [send |-> code # 0, next |-> code = 0]

\* the request after a stage that decided `code`, with req.user as the stage left it
AfterStage(stage, code, user, consumed) ==
  LET r == StageResult(code)
      a == [app EXCEPT !.user = user,
                       !.consumed = consumed,
                       !.sent = IF r.send THEN @ + 1 ELSE @,
                       !.status = IF r.send THEN code ELSE @]
  IN IF r.next
       THEN [a EXCEPT !.stage = @ + 1, !.passed = Append(@, stage)]
       ELSE [a EXCEPT !.pc = "done"]

\* a request arrives at the app
AppArrive(route, hdr, tooLarge) ==
  /\ variant = "app"
  /\ app.pc \in {"idle", "done"}
  /\ rateHits["globalRateLimiter"] <= RateMax("globalRateLimiter")
  /\ app' = [AppIdle EXCEPT !.pc = "run", !.route = route, !.hdr = hdr,
                            !.tooLarge = tooLarge, !.stage = 1]
  /\ UNCHANGED <<variant, now, memVars, dbVars, gate, authEnv, rateHits, otherVars>>

\* express-rate-limit: count the hit; past the threshold answer 429
RateLimit(limiter) ==
  /\ AppAt(limiter)
  /\ rateHits' = [rateHits EXCEPT ![limiter] = @ + 1]
  /\ app' = AfterStage(limiter, IF rateHits'[limiter] > RateMax(limiter) THEN 429 ELSE 0,
                       app.user, app.consumed)
  /\ UNCHANGED <<variant, now, memVars, dbVars, gate, authEnv, otherVars>>

\* express-rate-limit: windowMs has passed, the limiter's counts start again
RateWindowElapsed(limiter) ==
  /\ variant = "app"
  /\ rateHits[limiter] > 0
  /\ rateHits' = [rateHits EXCEPT ![limiter] = 0]
  /\ UNCHANGED <<variant, now, memVars, dbVars, gate, authEnv, app, otherVars>>

enforceUploadSize ==
  /\ AppAt("enforceUploadSize")
  /\ app' = AfterStage("enforceUploadSize", IF app.tooLarge THEN 413 ELSE 0,
                       app.user, app.consumed)
  /\ UNCHANGED <<variant, now, memVars, dbVars, gate, authEnv, rateHits, otherVars>>

\* authenticate of the route: what it answers (0 = next()), the req.user it
\* attaches, the auth_tokens table it leaves and whether it took a use
AuthenticateOutcome(rows, table, enabled, hdr, t) ==
  LET none == [code |-> 403, user |-> NoRow, rows |-> rows, consumed |-> FALSE] IN
  IF ~enabled THEN [none EXCEPT !.code = 0]
  ELSE IF hdr = NoHeader THEN none
  ELSE IF hdr \notin DOMAIN rows THEN none
  ELSE IF ValidateDecision(rows[hdr], t) # "valid"
    THEN [none EXCEPT !.rows = DeleteToken(rows, hdr)]
  ELSE LET used == IncrementUsage(rows, hdr)
           username == rows[hdr].username
       IN IF username \notin DOMAIN table
            THEN [none EXCEPT !.rows = used, !.consumed = TRUE]
            ELSE [code |-> 0, user |-> table[username], rows |-> used,
                  consumed |-> TRUE]

app_authenticate ==
  /\ AppAt("authenticate")
  /\ LET out == AuthenticateOutcome(authTokens, users, authEnabled, app.hdr, now) IN
       /\ authTokens' = out.rows
       /\ app' = AfterStage("authenticate", out.code, out.user, out.consumed)
  /\ UNCHANGED <<variant, now, memVars, authEnabled, users, dbNextToken, procs,
                 dbRequests, dbAuthed, dbRevoked, dbCascaded, gate, authEnv, rateHits, otherVars>>

app_requirePermission ==
  /\ AppAt("requirePermission")
  /\ app' = AfterStage("requirePermission",
                       RequirePermission(app.user, RoutePermission(app.route)),
                       app.user, app.consumed)
  /\ UNCHANGED <<variant, now, memVars, dbVars, gate, authEnv, rateHits, otherVars>>

app_requireAdmin ==
  /\ AppAt("requireAdmin")
  /\ app' = AfterStage("requireAdmin", RequireAdmin(app.user), app.user, app.consumed)
  /\ UNCHANGED <<variant, now, memVars, dbVars, gate, authEnv, rateHits, otherVars>>

\* the route handler: the chain is through, the controller answers
app_handler ==
  /\ variant = "app"
  /\ app.pc = "run"
  /\ app.stage > Len(AppChain(app.route))
  /\ app' = [app EXCEPT !.pc = "done", !.handled = TRUE, !.status = 200,
                        !.sent = @ + 1]
  /\ UNCHANGED <<variant, now, memVars, dbVars, gate, authEnv, rateHits, otherVars>>

\* The tokens the client holds: alice and root have each logged in once at
\* time 0 (createToken).
AppTokens ==
  [token \in 1 .. 2 |->
     [username |-> IF token = 1 THEN "alice" ELSE "root", usage_count |-> 0,
      max_usage |-> MAX_USAGE, expires_at |-> TOKEN_LIFETIME]]

\* values of process.env.AUTH_ENABLED a deployment of the variant is started with
AuthEnvValues(v) ==
  IF v = "app" THEN {"unset", "true", "false"}
  ELSE IF v \in {"db", "gate"} THEN {"unset", "true"}
  ELSE {"unset"}

\* ------------------------------------------------- regex safety analyzer
\* A pattern is a sequence of characters.  The characters the analysis
\* below reads: letters, digits, blank, comma, dot stand for themselves;
\* ( ) | * + { } \ have their regular-expression meaning.
Digits == {"1", "2"}

PatternLetters == {"a", "b", "e", "r", "t", "x", "y"}

RECURSIVE DigitsEnd(_, _)
\* the first position from i on that holds no digit
DigitsEnd(s, i) ==
  IF i <= Len(s) /\ s[i] \in Digits THEN DigitsEnd(s, i + 1) ELSE i

\* \{\d+(?:,\d*)?\} at position i: the length of the match, 0 for none
BraceLen(s, i) ==
  LET j == DigitsEnd(s, i + 1) IN
  IF i > Len(s) \/ s[i] # "{" \/ j = i + 1 \/ j > Len(s) THEN 0
  ELSE IF s[j] = "}" THEN j - i + 1
  ELSE IF s[j] = ","
    THEN LET k == DigitsEnd(s, j + 1) IN
         IF k <= Len(s) /\ s[k] = "}" THEN k - i + 1 ELSE 0
  ELSE 0

RECURSIVE NumVal(_, _, _)
\* the decimal number written in s[i .. j-1]
NumVal(s, i, j) ==
  IF j <= i THEN 0
  ELSE 10 * NumVal(s, i, j - 1) + (IF s[j - 1] = "1" THEN 1 ELSE 2)

\* {n,m} at position i with n > m: "numbers out of order in {} quantifier"
BraceOutOfOrder(s, i) ==
  LET j == DigitsEnd(s, i + 1)
      k == DigitsEnd(s, j + 1)
  IN /\ BraceLen(s, i) > 0
     /\ s[j] = ","
     /\ k > j + 1
     /\ NumVal(s, i + 1, j) > NumVal(s, j + 1, k)

\* the length of the quantifier at position i (* + {n} {n,} {n,m}), 0 for none
QuantLen(s, i) ==
  IF i > Len(s) THEN 0
  ELSE IF s[i] \in {"*", "+"} THEN 1
  ELSE BraceLen(s, i)

Max(a, b) == IF a > b THEN a ELSE b

\* the scan of a pattern before its first character
ScanStart ==
  [ok |-> TRUE, stack |-> <<[h |-> 0, alt |-> FALSE]>>,
   prev |-> [kind |-> "none", h |-> 0, altGroup |-> FALSE],
   nested |-> FALSE, reps |-> 0, quantAlt |-> FALSE]

\* the innermost open group with its star height raised to h
RaiseTop(stack, h) ==
  [stack EXCEPT ![Len(stack)].h = Max(@, h)]

RECURSIVE Scan(_, _, _)
\* One pass over the pattern from position i: whether it is well formed
\* (groups balanced, every quantifier has something to repeat, no trailing
\* backslash), whether a repetition stands inside a repetition (star height
\* above 1), the number of repetitions, and whether a group with an
\* alternation at its top level is followed by a quantifier.
Scan(s, i, st) ==
  IF ~st.ok \/ i > Len(s) THEN [st EXCEPT !.ok = st.ok /\ Len(st.stack) = 1]
  ELSE LET c == s[i]
           q == QuantLen(s, i)
           atom == [kind |-> "atom", h |-> 0, altGroup |-> FALSE]
       IN
    IF c = "\\"
      THEN IF i = Len(s) THEN [st EXCEPT !.ok = FALSE]
           ELSE Scan(s, i + 2,
                     [st EXCEPT !.prev = IF s[i + 1] = "b"
                                           THEN [atom EXCEPT !.kind = "assertion"]
                                           ELSE atom])
    ELSE IF c = "("
      THEN Scan(s, i + 1,
                [st EXCEPT !.stack = Append(@, [h |-> 0, alt |-> FALSE]),
                           !.prev = [atom EXCEPT !.kind = "none"]])
    ELSE IF c = ")"
      THEN IF Len(st.stack) = 1 THEN [st EXCEPT !.ok = FALSE]
           ELSE LET f == st.stack[Len(st.stack)]
                    rest == SubSeq(st.stack, 1, Len(st.stack) - 1)
                IN Scan(s, i + 1,
                        [st EXCEPT !.stack = RaiseTop(rest, f.h),
                                   !.prev = [kind |-> "atom", h |-> f.h,
                                             altGroup |-> f.alt]])
    ELSE IF c = "|"
      THEN Scan(s, i + 1,
                [st EXCEPT !.stack = [@ EXCEPT ![Len(@)].alt = TRUE],
                           !.prev = [atom EXCEPT !.kind = "none"]])
    ELSE IF q > 0
      THEN IF st.prev.kind # "atom" \/ BraceOutOfOrder(s, i)
             THEN [st EXCEPT !.ok = FALSE]
             ELSE Scan(s, i + q,
                       [st EXCEPT !.stack = RaiseTop(@, st.prev.h + 1),
                                  !.nested = @ \/ st.prev.h + 1 > 1,
                                  !.reps = @ + 1,
                                  !.quantAlt = @ \/ st.prev.altGroup,
                                  !.prev = [atom EXCEPT !.kind = "quantifier"]])
    ELSE Scan(s, i + 1, [st EXCEPT !.prev = atom])

\* pattern.trim().length === 0 (the empty pattern included)
IsBlank(s) == \A i \in 1 .. Len(s) : s[i] = " "

\* new RegExp(pattern) does not throw
ValidSyntax(s) == Scan(s, 1, ScanStart).ok

\* safe-regex: false for a pattern it cannot parse, for star height above 1
\* and for more than RepLimit repetitions
RepLimit == 25

SafeRegex(s) ==
  LET r == Scan(s, 1, ScanStart) IN r.ok /\ ~r.nested /\ r.reps <= RepLimit

\* /\([^)]*\|[^)]*\)(?:[*+]|\{\d+(?:,\d*)?\})/.test(pattern)
QuantifiedAlternation(s) ==
  \E i \in 1 .. Len(s), j \in 1 .. Len(s), k \in 1 .. Len(s) :
    /\ i < j /\ j < k
    /\ s[i] = "(" /\ s[j] = "|" /\ s[k] = ")"
    /\ \A m \in i + 1 .. k - 1 : s[m] # ")"
    /\ QuantLen(s, k + 1) > 0

\* validateRegexPattern with the first two checks in the other order
ValidateRegexPatternLengthFirst(pattern, maxLength) ==
  IF Len(pattern) > maxLength THEN "tooLong"
  ELSE IF IsBlank(pattern) THEN "empty"
  ELSE IF ~ValidSyntax(pattern) THEN "syntax"
  ELSE IF ~SafeRegex(pattern) THEN "unsafeBacktracking"
  ELSE IF QuantifiedAlternation(pattern) THEN "unsafeAlternation"
  ELSE "ok"

\* validateRegexPattern without the length check
ValidateRegexPatternNoLength(pattern, maxLength) ==
  IF IsBlank(pattern) THEN "empty"
  ELSE IF ~ValidSyntax(pattern) THEN "syntax"
  ELSE IF ~SafeRegex(pattern) THEN "unsafeBacktracking"
  ELSE IF QuantifiedAlternation(pattern) THEN "unsafeAlternation"
  ELSE "ok"

\* validateRegexPattern without the safe-regex check
ValidateRegexPatternNoSafeRegex(pattern, maxLength) ==
  IF IsBlank(pattern) THEN "empty"
  ELSE IF Len(pattern) > maxLength THEN "tooLong"
  ELSE IF ~ValidSyntax(pattern) THEN "syntax"
  ELSE IF QuantifiedAlternation(pattern) THEN "unsafeAlternation"
  ELSE "ok"

\* validateRegexPattern: the error it throws, "ok" when it returns
ValidateRegexPattern(pattern, maxLength) ==
  IF IsBlank(pattern) THEN "empty"
  ELSE IF Len(pattern) > maxLength THEN "tooLong"
  ELSE IF ~ValidSyntax(pattern) THEN "syntax"
  ELSE IF ~SafeRegex(pattern) THEN "unsafeBacktracking"
  ELSE IF QuantifiedAlternation(pattern) THEN "unsafeAlternation"
  ELSE "ok"

\* the message of the Error thrown
ErrorMessage(error) ==
  IF error = "empty" THEN "Regex pattern cannot be empty"
  ELSE IF error = "tooLong" THEN "Regex pattern too long"
  ELSE IF error = "syntax" THEN "Invalid regex syntax"
  ELSE IF error = "unsafeBacktracking"
    THEN "Unsafe regex pattern detected. Pattern may cause performance issues (ReDoS)."
  ELSE IF error = "unsafeAlternation"
    THEN "Unsafe regex pattern detected. Quantified alternations are not allowed."
  ELSE "none"

\* ArtifactsService.searchByRegex was not called
NoQuery == <<"no query">>

\* a controller that calls the service with the raw pattern
ServicePatternUnchecked(pattern, maxLength) ==
  IF pattern = << >> THEN NoQuery ELSE pattern

\* ArtifactsController.searchByRegex: the pattern it hands to
\* ArtifactsService.searchByRegex, which puts it into `name ~* $1 OR readme ~* $1`.
\* prepareRegexForQuery returns the pattern it validated; when it throws,
\* handleRegexError throws in its turn and the call is not reached
ServicePattern(pattern, maxLength) ==
  IF pattern = << >> THEN NoQuery
  ELSE IF ValidateRegexPattern(pattern, maxLength) # "ok" THEN NoQuery
  ELSE pattern

\* a pattern arrived and nothing has looked at it yet
RegexReceived(pattern) ==
  [pc |-> "received", op |-> "none", pattern |-> pattern, error |-> "none",
   status |-> 0, message |-> <<"none">>, query |-> NoQuery]

\* validateRegexPattern(pattern) (also reached through sanitizeRegexForPostgres
\* and prepareRegexForQuery)
validateRegexPattern ==
  /\ variant = "regex"
  /\ regex.pc = "received"
  /\ LET error == ValidateRegexPattern(regex.pattern, maxPatternLength) IN
     regex' = [regex EXCEPT !.pc = "done", !.op = "validateRegexPattern",
                            !.error = error, !.message = <<ErrorMessage(error)>>]
  /\ UNCHANGED <<variant, now, memVars, dbVars, gate, appVars, maxPatternLength, pageVars,
                 moreVars>>

\* ArtifactsController.searchByRegex up to the search itself: the field
\* check, prepareRegexForQuery, handleRegexError; the errorHandler answers
\* with the status of the error and its message.
searchByRegex ==
  /\ variant = "regex"
  /\ regex.pc = "received"
  /\ LET error == ValidateRegexPattern(regex.pattern, maxPatternLength) IN
     regex' =
       [(IF regex.pattern = << >>
         THEN [regex EXCEPT !.pc = "done", !.op = "searchByRegex",
                            !.error = "missingField", !.status = 400,
                            !.message = <<"regex field is required">>]
       ELSE IF error # "ok"
         THEN [regex EXCEPT !.pc = "done", !.op = "searchByRegex",
                            !.error = error, !.status = 400,
                            !.message = <<"Invalid regex pattern: ",
                                          ErrorMessage(error)>>]
       ELSE [regex EXCEPT !.pc = "done", !.op = "searchByRegex", !.error = "ok",
                          !.status = 200])
        EXCEPT !.query = ServicePattern(regex.pattern, maxPatternLength)]
  /\ UNCHANGED <<variant, now, memVars, dbVars, gate, appVars, maxPatternLength, pageVars,
                 moreVars>>

\* the patterns validated: all short ones over a small alphabet, the patterns
\* the documentation names, and patterns longer than the configured maximum
RegexAlphabet == {"a", "(", ")", "|", "+", " ", "\\"}

ShortPatterns == UNION {[1 .. n -> RegexAlphabet] : n \in 0 .. MaxPatLen}

NamedPatterns ==
  { <<"(", "a", "+", ")", "+">>,
    <<"(", "a", "*", ")", "*">>,
    <<"(", "x", "+", "x", "+", ")", "+", "y">>,
    <<"a", "+">>,
    <<"b", "e", "r", "t">>,
    <<".", "*", "b", "e", "r", "t", ".", "*">>,
    <<"(", "a", "|", "a", "a", ")", "+">>,
    <<"(", "a", "|", "b", ")", "{", "1", ",", "2", "}">>,
    <<"(", "a", "|", "b", ")", "{", "2", ",", "1", "}">>,
    <<"(", "(", "a", ")", "|", "b", ")", "+">>,
    <<"(", "a", "|", "(", "a", "a", ")", ")", "*">>,
    <<"(", "\\", ")", "|", "a", ")", "+">>,
    <<"a", "{", "1", "}", "{", "2", "}">>,
    <<"\\", "b", "+">> }

LongPatterns ==
  { [i \in 1 .. LongMaxLength + 1 |-> c] : c \in {"a", " ", "("} }
  \cup { <<"(", "a", "+", ")", "+">> \o [i \in 1 .. LongMaxLength |-> "a"] }

RegexInputs == ShortPatterns \cup NamedPatterns \cup LongPatterns

\* ------------------------------------------------ paginated enumeration
DigitChars == <<"0", "1", "2", "3", "4", "5", "6", "7", "8", "9">>

RECURSIVE ToDecimal(_)
\* String(n) for a non-negative integer
ToDecimal(n) ==
  IF n < 10 THEN <<DigitChars[n + 1]>>
  ELSE Append(ToDecimal(n \div 10), DigitChars[(n % 10) + 1])

DigitValue(c) == CHOOSE d \in 0 .. 9 : DigitChars[d + 1] = c

IsDigit(c) == \E d \in 0 .. 9 : DigitChars[d + 1] = c

RECURSIVE LeadingDigits(_, _, _)
\* the value of the run of digits of str from position i on, after acc
LeadingDigits(str, i, acc) ==
  IF i <= Len(str) /\ IsDigit(str[i])
    THEN LeadingDigits(str, i + 1, 10 * acc + DigitValue(str[i]))
    ELSE acc

\* parseInt(str, 10): an optional sign, then the leading digits; NaN when
\* there is no digit to read
ParseInt(str) ==
  LET neg == Len(str) > 0 /\ str[1] = "-"
      first == IF neg \/ (Len(str) > 0 /\ str[1] = "+") THEN 2 ELSE 1
  IN IF first > Len(str) \/ ~IsDigit(str[first]) THEN [nan |-> TRUE, value |-> 0]
     ELSE [nan |-> FALSE,
           value |-> IF neg THEN 0 - LeadingDigits(str, first, 0)
                            ELSE LeadingDigits(str, first, 0)]

\* no offset parameter in the query string
NoOffset == <<"undefined">>

\* parseOffset: the offset, or the Error it throws
ParseOffset(offsetStr) ==
  IF offsetStr = NoOffset \/ offsetStr = << >> THEN [error |-> FALSE, offset |-> 0]
  ELSE LET n == ParseInt(offsetStr) IN
       IF n.nan \/ n.value < 0 THEN [error |-> TRUE, offset |-> 0]
       ELSE [error |-> FALSE, offset |-> n.value]

\* getSqlLimit
GetSqlLimit(limit) == limit + 1

\* the rows the UNION of the queries selects
Matching(rows, qs) ==
  {id \in DOMAIN rows : \E n \in 1 .. Len(qs) : qs[n] = "*" \/ rows[id] = qs[n]}

\* ORDER BY name, id
Before(rows, x, y) ==
  \/ (rows[x] = "a" /\ rows[y] = "b")
  \/ (rows[x] = rows[y] /\ x < y)

RECURSIVE Ordered(_, _)
Ordered(rows, ids) ==
  IF ids = {} THEN << >>
  ELSE LET first == CHOOSE x \in ids : \A y \in ids \ {x} : Before(rows, x, y)
       IN <<first>> \o Ordered(rows, ids \ {first})

\* ... ORDER BY name, id LIMIT sqlLimit OFFSET offset
SelectPage(rows, qs, sqlLimit, offset) ==
  LET all == Ordered(rows, Matching(rows, qs))
      last == IF offset + sqlLimit < Len(all) THEN offset + sqlLimit ELSE Len(all)
  IN SubSeq(all, offset + 1, last)

\* ArtifactsService.enumerateArtifacts: the LIMIT parameter it sends for
\* pagination.limit
ServiceSqlLimit(limit) == limit + 1

\* ArtifactsService.enumerateArtifacts: the rows it gets for pagination.limit
EnumerateArtifacts(rows, qs, limit, offset) ==
  SelectPage(rows, qs, ServiceSqlLimit(limit), offset)

\* count_artifacts_safe(max_count)
CountArtifactsSafe(rows, maxCount) ==
  IF Cardinality(DOMAIN rows) > maxCount THEN maxCount + 1
  ELSE Cardinality(DOMAIN rows)

RECURSIVE SumNameCounts(_, _, _)
SumNameCounts(rows, qs, n) ==
  IF n > Len(qs) THEN 0
  ELSE Cardinality({id \in DOMAIN rows : rows[id] = qs[n]})
         + SumNameCounts(rows, qs, n + 1)

\* an estimate that counts the first query only and 0 when a count fails
EstimateResultCountFirstOnly(rows, qs, maxTotal, fails) ==
  IF fails THEN 0
  ELSE Cardinality({id \in DOMAIN rows : qs[1] = "*" \/ rows[id] = qs[1]})

\* estimateResultCount: the capped total for a wildcard, else the sum of the
\* per-query counts; maxTotalResults + 1 when a count query fails
EstimateResultCount(rows, qs, maxTotal, fails) ==
  IF fails THEN maxTotal + 1
  ELSE IF \E n \in 1 .. Len(qs) : qs[n] = "*" THEN CountArtifactsSafe(rows, maxTotal)
  ELSE SumNameCounts(rows, qs, 1)

\* processPaginatedResults returning every fetched row, the lookahead row included
ProcessPaginatedResultsNoSlice(results, offset, limit) ==
  LET hasMore == Len(results) > limit IN
  [items |-> results,
   nextOffset |-> IF hasMore THEN ToDecimal(offset + limit) ELSE <<"null">>,
   hasMore |-> hasMore]

\* processPaginatedResults
ProcessPaginatedResults(results, offset, limit) ==
  LET hasMore == Len(results) > limit IN
  [items |-> SubSeq(results, 1, IF hasMore THEN limit ELSE Len(results)),
   nextOffset |-> IF hasMore THEN ToDecimal(offset + limit) ELSE <<"null">>,
   hasMore |-> hasMore]

\* no customLimit argument
NoCustomLimit == -1

\* getPaginationParams: the parameters, or the Error it throws
GetPaginationParams(offsetStr, customLimit, cfg) ==
  LET parsed == ParseOffset(offsetStr) IN
  IF parsed.error THEN [error |-> TRUE, offset |-> 0, limit |-> 0]
  ELSE IF customLimit = NoCustomLimit
    THEN [error |-> FALSE, offset |-> parsed.offset, limit |-> cfg.defaultPageSize]
  ELSE IF customLimit <= 0 THEN [error |-> TRUE, offset |-> 0, limit |-> 0]
  ELSE [error |-> FALSE, offset |-> parsed.offset,
        limit |-> IF customLimit < cfg.maxPageSize THEN customLimit ELSE cfg.maxPageSize]

\* isDeepPagination
IsDeepPagination(offset, cfg) == offset > cfg.maxTotalResults

\* what the database does with the request's statements: it answers, the
\* count of the estimate fails, the fetch is cancelled by statement_timeout
\* (SQLSTATE 57014), or the fetch fails otherwise
DbOutcomes == {"ok", "estimateFails", "fetchTimeout", "fetchFails"}

\* an AppError subclass instance; a thrown value has no code unless the
\* database driver set one
AppError(class, statusCode) == [class |-> class, statusCode |-> statusCode, code |-> "none"]

\* new Error(...): no statusCode
PlainError == [class |-> "Error", statusCode |-> 0, code |-> "none"]

\* an error of the database driver with its SQLSTATE
DriverError(code) == [class |-> "DatabaseError", statusCode |-> 0, code |-> code]

\* nothing thrown
NoError == [class |-> "none", statusCode |-> 0, code |-> "none"]

\* ArtifactsService.executeWithTimeout: what it throws for the driver's error
ExecuteWithTimeoutError(err) ==
  IF err.code = "57014" THEN AppError("PayloadTooLargeError", 413) ELSE err

\* handleDatabaseError letting an AppError through as it is
HandleDatabaseErrorPassThrough(err) ==
  IF err.statusCode # 0 THEN err
  ELSE IF err.code = "57014" THEN AppError("PayloadTooLargeError", 413)
  ELSE AppError("InternalServerError", 500)

\* handleDatabaseError: what it throws for the error it is given
HandleDatabaseError(err) ==
  IF err.code \in {"23505", "23503", "23502"} THEN AppError("BadRequestError", 400)
  ELSE IF err.code = "57014" THEN AppError("PayloadTooLargeError", 413)
  ELSE AppError("InternalServerError", 500)

\* ArtifactsService.enumerateArtifacts: what it throws when its query fails
EnumerateArtifactsError(db) ==
  LET thrown == ExecuteWithTimeoutError(
                  IF db = "fetchTimeout" THEN DriverError("57014") ELSE DriverError("08006"))
  IN IF thrown.class = "BadRequestError" THEN thrown ELSE HandleDatabaseError(thrown)

\* errorHandler: the status of the response
ErrorStatus(err) == IF err.statusCode # 0 THEN err.statusCode ELSE 500

\* no estimate computed
NoEstimate == -1

\* an error response of the error middleware; sqlLimit is the LIMIT parameter
\* of the fetch query when the request got that far, else 0
PageError(err, offsetStr, db, estimate, sqlLimit) ==
  [status |-> ErrorStatus(err), error |-> err, items |-> << >>, offsetHeader |-> NoOffset,
   hasMore |-> FALSE, offsetStr |-> offsetStr, offset |-> 0, limit |-> 0, db |-> db,
   estimate |-> estimate, sqlLimit |-> sqlLimit]

\* the estimate check never rejecting
TooManyResultsNever(estimate, cfg) == FALSE

\* estimatedCount > config.pagination.maxTotalResults
TooManyResults(estimate, cfg) == estimate > cfg.maxTotalResults

\* ArtifactsController.enumerateArtifacts: the response to one request
EnumerateResponse(rows, qs, cfg, offsetStr, db) ==
  LET p == GetPaginationParams(offsetStr, NoCustomLimit, cfg)
      estimate == EstimateResultCount(rows, qs, cfg.maxTotalResults, db = "estimateFails")
      sqlLimit == GetSqlLimit(p.limit)
  IN
  IF qs = << >> THEN PageError(AppError("BadRequestError", 400), offsetStr, db, NoEstimate, 0)
  ELSE IF p.error THEN PageError(PlainError, offsetStr, db, NoEstimate, 0)
  ELSE IF IsDeepPagination(p.offset, cfg)
    THEN PageError(AppError("PayloadTooLargeError", 413), offsetStr, db, NoEstimate, 0)
  ELSE IF TooManyResults(estimate, cfg)
    THEN PageError(AppError("PayloadTooLargeError", 413), offsetStr, db, estimate, 0)
  ELSE IF db \in {"fetchTimeout", "fetchFails"}
    THEN PageError(EnumerateArtifactsError(db), offsetStr, db, estimate,
                   ServiceSqlLimit(sqlLimit))
  ELSE LET results == EnumerateArtifacts(rows, qs, sqlLimit, p.offset)
           r == ProcessPaginatedResults(results, p.offset, p.limit)
       IN [status |-> 200, error |-> NoError, items |-> r.items,
           offsetHeader |-> IF r.nextOffset = <<"null">> THEN NoOffset ELSE r.nextOffset,
           hasMore |-> r.hasMore,
           offsetStr |-> offsetStr, offset |-> p.offset, limit |-> p.limit, db |-> db,
           estimate |-> estimate, sqlLimit |-> ServiceSqlLimit(sqlLimit)]

\* no PaginationParams value produced
NoParams == [error |-> TRUE, offset |-> 0, limit |-> 0]

\* no request made yet
PageIdle ==
  [res |-> [PageError(NoError, NoOffset, "ok", NoEstimate, 0) EXCEPT !.status = 0],
   inWalk |-> FALSE, delivered |-> << >>, pages |-> 0, params |-> NoParams]

\* the client asks for the first page: no offset parameter
enumerate_first(db) ==
  /\ variant = "page"
  /\ LET res == EnumerateResponse(artifacts, queries, pagination, NoOffset, db) IN
     page' = [res |-> res, inWalk |-> TRUE, delivered |-> res.items,
              pages |-> IF res.status = 200 THEN 1 ELSE 0,
              params |-> GetPaginationParams(NoOffset, NoCustomLimit, pagination)]
  /\ UNCHANGED <<variant, now, memVars, dbVars, gate, appVars, regexVars,
                 artifacts, queries, pagination, moreVars>>

\* the client asks for the next page: the offset header of the last response
enumerate_next(db) ==
  /\ variant = "page"
  /\ page.inWalk
  /\ page.res.status = 200
  /\ page.res.offsetHeader # NoOffset
  /\ LET res == EnumerateResponse(artifacts, queries, pagination,
                                  page.res.offsetHeader, db) IN
     page' = [res |-> res, inWalk |-> TRUE,
              delivered |-> page.delivered \o res.items,
              pages |-> IF res.status = 200 THEN page.pages + 1 ELSE page.pages,
              params |-> GetPaginationParams(page.res.offsetHeader, NoCustomLimit,
                                             pagination)]
  /\ UNCHANGED <<variant, now, memVars, dbVars, gate, appVars, regexVars,
                 artifacts, queries, pagination, moreVars>>

\* offset parameters a client can send on its own
OffsetStrings == {<< >>, <<"x">>, <<"-", "1">>, <<"1", "x">>, <<"9">>, <<"1", "0">>}

\* a request with an offset of the client's own choosing
enumerate_at(offsetStr, db) ==
  /\ variant = "page"
  /\ LET res == EnumerateResponse(artifacts, queries, pagination, offsetStr, db) IN
     page' = [res |-> res, inWalk |-> FALSE, delivered |-> << >>, pages |-> 0,
              params |-> GetPaginationParams(offsetStr, NoCustomLimit, pagination)]
  /\ UNCHANGED <<variant, now, memVars, dbVars, gate, appVars, regexVars,
                 artifacts, queries, pagination, moreVars>>

\* the customLimit arguments followed
CustomLimits == {NoCustomLimit, -2, 0} \cup (1 .. MaxPageSize + 1)

\* getPaginationParams called with a custom limit
getPaginationParams(offsetStr, customLimit) ==
  /\ variant = "params"
  /\ page' = [PageIdle EXCEPT
                !.params = GetPaginationParams(offsetStr, customLimit, pagination)]
  /\ UNCHANGED <<variant, now, memVars, dbVars, gate, appVars, regexVars,
                 artifacts, queries, pagination, moreVars>>

\* the artifacts tables followed: up to MaxArtifacts rows named a or b
Datasets == UNION {[1 .. n -> {"a", "b"}] : n \in 0 .. MaxArtifacts}

\* the query lists followed: the names of the ArtifactQuery objects of the body
QueryLists == {<< >>, <<"*">>, <<"a">>, <<"a", "b">>, <<"a", "a">>, <<"b", "*">>}

\* config.pagination
PaginationConfigs ==
  [defaultPageSize : 1 .. MaxPageSize,
   maxPageSize : {MaxPageSize},
   maxTotalResults : {MaxArtifacts - 1, MaxArtifacts}]

\* config.pagination with DEFAULT_PAGE_SIZE and MAX_PAGE_SIZE set independently
ParamsConfigs ==
  [defaultPageSize : 1 .. MaxPageSize,
   maxPageSize : 1 .. MaxPageSize,
   maxTotalResults : {MaxArtifacts - 1, MaxArtifacts}]

\* the offset strings getPaginationParams is called with
ParamsOffsetStrings ==
  OffsetStrings \cup {NoOffset, <<"2">>, <<"3">>, <<"+", "4">>, <<"0", "7">>}

\* ------------------------------------------------- executeWithTimeout
Execs == 1 .. MaxExecs

Clients == 1 .. PoolSize

NoClient == 0

\* a client that left the pool and was never released
Leaked == -1

ExecIdle == [pc |-> "idle", client |-> NoClient, pending |-> "none", outcome |-> "none"]

ClientIdle == [holder |-> NoClient, statementTimeout |-> "default"]

ExecAt(e, pc) == variant = "exec" /\ exec[e].pc = pc

\* a service method calls executeWithTimeout(sql, params, timeoutMs)
executeWithTimeout(e) ==
  /\ ExecAt(e, "idle")
  /\ exec' = [exec EXCEPT ![e] = [ExecIdle EXCEPT !.pc = "connect"]]
  /\ UNCHANGED <<baseVars, pool, storeUp, limiterVars, auditVars>>

\* await db.getClient(): the pool hands out an idle client
exec_getClient(e) ==
  /\ ExecAt(e, "connect")
  /\ \E c \in Clients :
       /\ pool[c].holder = NoClient
       /\ pool' = [pool EXCEPT ![c].holder = e]
       /\ exec' = [exec EXCEPT ![e].pc = "set", ![e].client = c]
  /\ UNCHANGED <<baseVars, storeUp, limiterVars, auditVars>>

\* await db.getClient(): no client became idle within connectionTimeoutMillis;
\* the pool rejects, and the rejection leaves executeWithTimeout before its try
exec_getClientTimeout(e) ==
  /\ ExecAt(e, "connect")
  /\ \A c \in Clients : pool[c].holder # NoClient
  /\ exec' = [exec EXCEPT ![e].pc = "done", ![e].outcome = "DatabaseError"]
  /\ UNCHANGED <<baseVars, pool, storeUp, limiterVars, auditVars>>

\* the store answers SET statement_timeout: the session is limited, or the
\* statement fails and the catch rethrows the error
exec_setAnswered(e, ok) ==
  /\ ExecAt(e, "set")
  /\ storeUp
  /\ IF ok
       THEN /\ pool' = [pool EXCEPT ![exec[e].client].statementTimeout = "timeoutMs"]
            /\ exec' = [exec EXCEPT ![e].pc = "query"]
       ELSE /\ pool' = pool
            /\ exec' = [exec EXCEPT ![e].pc = "reset", ![e].pending = "DatabaseError"]
  /\ UNCHANGED <<baseVars, storeUp, limiterVars, auditVars>>

\* what the store can answer to the main query
QueryAnswers == {"rows", "57014", "08006"}

\* the store answers the main query: rows, the cancellation of the statement
\* by statement_timeout, or another error
exec_queryAnswered(e, answer) ==
  /\ ExecAt(e, "query")
  /\ storeUp
  /\ answer = "57014" => pool[exec[e].client].statementTimeout = "timeoutMs"
  /\ exec' = [exec EXCEPT ![e].pc = "reset",
                          ![e].pending =
                             IF answer = "rows" THEN "rows"
                             ELSE ExecuteWithTimeoutError(DriverError(answer)).class]
  /\ UNCHANGED <<baseVars, pool, storeUp, limiterVars, auditVars>>

\* finally: the store answers RESET statement_timeout and the client is
\* released, or RESET fails: its error replaces the pending outcome and
\* client.release() is not reached
exec_resetAnswered(e, ok) ==
  /\ ExecAt(e, "reset")
  /\ storeUp
  /\ IF ok
       THEN /\ pool' = [pool EXCEPT ![exec[e].client] = ClientIdle]
            /\ exec' = [exec EXCEPT ![e].pc = "done", ![e].client = NoClient,
                                    ![e].outcome = exec[e].pending]
       ELSE /\ pool' = [pool EXCEPT ![exec[e].client].holder = Leaked]
            /\ exec' = [exec EXCEPT ![e].pc = "done", ![e].client = NoClient,
                                    ![e].outcome = "DatabaseError"]
  /\ UNCHANGED <<baseVars, storeUp, limiterVars, auditVars>>

\* the caller has the result or the error
exec_return(e) ==
  /\ ExecAt(e, "done")
  /\ exec' = [exec EXCEPT ![e] = ExecIdle]
  /\ UNCHANGED <<baseVars, pool, storeUp, limiterVars, auditVars>>

\* the data store stops answering (a hung backend, a dead connection)
store_hangs ==
  /\ variant = "exec"
  /\ storeUp
  /\ storeUp' = FALSE
  /\ UNCHANGED <<baseVars, exec, pool, limiterVars, auditVars>>

\* the data store answers again
store_recovers ==
  /\ variant = "exec"
  /\ ~storeUp
  /\ storeUp' = TRUE
  /\ UNCHANGED <<baseVars, exec, pool, limiterVars, auditVars>>

\* ------------------------------------------------- express-rate-limit
Limiters == {"globalRateLimiter", "uploadRateLimiter"}

\* the default keyGenerator: the key of a request is req.ip
IPs == {"ip1", "ip2"}

\* req.user.username of the requests followed
RateSubjects == {"alice", "bob"}

\* the routes followed: both carry uploadRateLimiter and pass globalRateLimiter
RateRoutes == {"enumerate", "byRegEx"}

\* who calls from where: alice from both addresses, bob from ip1 only
Callers == {<<"ip1", "alice">>, <<"ip1", "bob">>, <<"ip2", "alice">>}

Pairs == RateSubjects \X RateRoutes

NoCall == [ip |-> "none", subject |-> "none", route |-> "none", status |-> 0]

\* nothing seen of a key in its current window
NoCalls == [calls |-> [pair \in Pairs |-> 0], admitted |-> 0, pastRejected |-> FALSE]

\* a limiter answering 429 from the max-th hit on
LimiterDecisionOffByOne(hits, max) == IF hits >= max THEN 429 ELSE 0

\* express-rate-limit: 429 when the hits of the key exceed max, else next()
LimiterDecision(hits, max) == IF hits > max THEN 429 ELSE 0

RECURSIVE SumCalls(_, _)
\* the calls of a key in its window, over the (subject, route) pairs
SumCalls(calls, pairs) ==
  IF pairs = {} THEN 0
  ELSE LET pair == CHOOSE x \in pairs : TRUE
       IN calls[pair] + SumCalls(calls, pairs \ {pair})

\* a request of subject to route from address ip reaches the limiter: the
\* store increments the hits of the key, the middleware decides
rateLimit(ip, subject, route) ==
  /\ variant = "rate"
  /\ limiterStore[ip] < RateMax(rateLimiter) + MaxRejected
  /\ LET hits == limiterStore[ip] + 1
         status == LimiterDecision(hits, RateMax(rateLimiter))
     IN /\ limiterStore' = [limiterStore EXCEPT ![ip] = hits]
        /\ rateCalls' = [rateCalls EXCEPT
                           ![ip].calls[<<subject, route>>] = @ + 1,
                           ![ip].admitted = IF status = 0 THEN @ + 1 ELSE @]
        /\ rateLast' = [ip |-> ip, subject |-> subject, route |-> route,
                        status |-> status]
  /\ UNCHANGED <<baseVars, execVars, rateLimiter, auditVars>>

\* windowMs has passed for the keys: the store forgets their hits (one key
\* whose resetTime has come, or every key at the store's interval)
rate_windowElapsed(keys) ==
  /\ variant = "rate"
  /\ \E ip \in keys : limiterStore[ip] > 0
  /\ limiterStore' = [ip \in IPs |-> IF ip \in keys THEN 0 ELSE limiterStore[ip]]
  /\ rateCalls' = [ip \in IPs |->
                     IF ip \in keys
                       THEN [NoCalls EXCEPT !.pastRejected =
                               \/ rateCalls[ip].pastRejected
                               \/ rateCalls[ip].admitted
                                    < SumCalls(rateCalls[ip].calls, Pairs)]
                       ELSE rateCalls[ip]]
  /\ rateLast' = IF rateLast.ip \in keys THEN NoCall ELSE rateLast
  /\ UNCHANGED <<baseVars, execVars, rateLimiter, auditVars>>

\* ------------------------------------- create, update and delete handlers
ArtifactIds == 1 .. MaxArtifacts

ArtifactTypes == {"model", "code"}

\* req.user.username of the requests that reach a mutating handler
AuditSubjects == {"alice", "root"}

NoMutation ==
  [seq |-> 0, action |-> "none", subject |-> "none", id |-> 0, status |-> 0,
   success |-> FALSE]

\* the request handled: its number, what it attempted, for whom, the answer
Handled(action, subject, id, status) ==
  [seq |-> mutation.seq + 1, action |-> action, subject |-> subject, id |-> id,
   status |-> status, success |-> status \in 200 .. 299]

\* FailedDependencyError and ConflictError are thrown by the service but are
\* neither imported nor declared by the error module: where a build declares
\* them the request ends with the status of the route's documentation, and
\* otherwise the throw is a ReferenceError, which the error handler answers
\* with 500
UndeclaredError(class, statusCode, declared) ==
  IF declared THEN AppError(class, statusCode) ELSE PlainError

\* ArtifactsService.createArtifact: the status the request ends with.
\* quality: computeQualityScore >= 0.5, < 0.5, or it throws; id: the value of
\* generateId(); answer: what the INSERT gets from the database
CreateStatus(rows, hasUrl, quality, id, answer, declared) ==
  IF ~hasUrl THEN ErrorStatus(AppError("BadRequestError", 400))
  ELSE IF quality = "low"
    THEN ErrorStatus(UndeclaredError("FailedDependencyError", 424, declared))
  ELSE IF quality = "throws" THEN ErrorStatus(HandleDatabaseError(PlainError))
  ELSE IF id \in DOMAIN rows \/ answer = "23505"
    THEN ErrorStatus(UndeclaredError("ConflictError", 409, declared))
  ELSE IF answer # "ok" THEN ErrorStatus(HandleDatabaseError(DriverError(answer)))
  ELSE 201

\* POST /artifact/:type -> ArtifactsController.createArtifact
createArtifact(subject, type, hasUrl, quality, id, answer, declared) ==
  /\ variant = "audit"
  /\ mutation.seq < MaxMutations
  /\ LET status == CreateStatus(registry, hasUrl, quality, id, answer, declared) IN
     /\ registry' = IF status = 201
                      THEN [i \in DOMAIN registry \cup {id} |->
                              IF i = id THEN type ELSE registry[i]]
                      ELSE registry
     /\ mutation' = Handled("artifact.create", subject, id, status)
  /\ UNCHANGED <<baseVars, execVars, limiterVars, auditLog>>

\* ArtifactsService.updateArtifact: the status the request ends with
UpdateStatus(rows, type, id, bodyMatches, answer) ==
  IF ~bodyMatches THEN ErrorStatus(AppError("BadRequestError", 400))
  ELSE IF answer # "ok" THEN ErrorStatus(DriverError(answer))
  ELSE IF id \notin DOMAIN rows \/ rows[id] # type
    THEN ErrorStatus(AppError("NotFoundError", 404))
  ELSE 200

\* ArtifactsController.updateArtifact
updateArtifact(subject, type, id, bodyMatches, answer) ==
  /\ variant = "audit"
  /\ mutation.seq < MaxMutations
  /\ mutation' = Handled("artifact.update", subject, id,
                         UpdateStatus(registry, type, id, bodyMatches, answer))
  /\ UNCHANGED <<baseVars, execVars, limiterVars, registry, auditLog>>

\* ArtifactsService.deleteArtifact: the status the request ends with
DeleteStatus(rows, type, id, answer) ==
  IF answer # "ok" THEN ErrorStatus(DriverError(answer))
  ELSE IF id \notin DOMAIN rows \/ rows[id] # type
    THEN ErrorStatus(AppError("NotFoundError", 404))
  ELSE 200

\* DELETE /artifacts/:artifact_type/:id and ArtifactsController.deleteArtifact
deleteArtifact(subject, type, id, answer) ==
  /\ variant = "audit"
  /\ mutation.seq < MaxMutations
  /\ LET status == DeleteStatus(registry, type, id, answer) IN
     /\ registry' = IF status = 200
                      THEN [i \in DOMAIN registry \ {id} |-> registry[i]]
                      ELSE registry
     /\ mutation' = Handled("artifact.delete", subject, id, status)
  /\ UNCHANGED <<baseVars, execVars, limiterVars, auditLog>>

\* --------------------------------------------------------- error handler
NodeEnvs == {"production", "development", "unset"}

\* service methods that query the store: the first four route a failed query
\* through handleDatabaseError, the last three let it propagate
WrappedMethods == {"enumerateArtifacts", "searchByRegex", "searchByName", "getTotalCount"}

BareMethods == {"getArtifact", "updateArtifact", "deleteArtifact"}

\* SQLSTATEs of failures that handleDatabaseError has no case for
UnexpectedCodes == {"08006", "53300", "XX000"}

\* the error object the driver rejects with: name, message, stack, no statusCode
StoreFailure(code) ==
  [name |-> "error", message |-> <<"store", code>>, statusCode |-> 0,
   stack |-> <<"driver", code>>]

\* new InternalServerError('Database operation failed') thrown by handleDatabaseError
DatabaseOperationFailed ==
  [name |-> "Error", message |-> <<"Database operation failed">>, statusCode |-> 500,
   stack |-> <<"handleDatabaseError">>]

\* what reaches the error middleware when the method's query fails with code
MethodThrows(method, code) ==
  IF method \in WrappedMethods THEN DatabaseOperationFailed ELSE StoreFailure(code)

NoStack == << >>

\* formatErrorResponse: statusCode 0 stands for the missing JSON property
FormatErrorResponse(error, includeStack) ==
  [error |-> error.name, message |-> error.message, statusCode |-> error.statusCode,
   stack |-> IF includeStack /\ error.stack # NoStack THEN error.stack ELSE NoStack]

\* errorHandler: status and JSON body
ErrorHandlerResponse(err, env) ==
  [status |-> ErrorStatus(err),
   body |-> FormatErrorResponse(err, env = "development")]

NoFailure == [method |-> "none", code |-> "none", response |-> ErrorHandlerResponse(DatabaseOperationFailed, "unset")]

\* a request whose store query fails unexpectedly, answered by errorHandler
errorHandler(method, code) ==
  /\ variant = "errors"
  /\ failures' = [prev |-> failures.last,
                  last |-> [method |-> method, code |-> code,
                            response |-> ErrorHandlerResponse(MethodThrows(method, code),
                                                              nodeEnv)]]
  /\ UNCHANGED <<coreVars, nodeEnv, sweep>>

\* ------------------------------------------------- token maintenance sweep
\* the state a sequential use of AuthService leaves alone
sweepRestVars ==
  <<variant, memVars, authEnabled, users, procs, dbRequests, dbAuthed, dbRevoked, dbCascaded,
    gate, appVars, regexVars, pageVars, execVars, limiterVars, auditVars, errorVars>>

NoSweep == [ran |-> FALSE, at |-> 0, before |-> << >>, after |-> << >>]

\* createToken(username): a fresh token, unused, valid for TOKEN_LIFETIME
createToken(username) ==
  /\ variant = "sweep"
  /\ dbNextToken <= MaxTokens
  /\ username \in DOMAIN users
  /\ authTokens' = [x \in (DOMAIN authTokens) \cup {dbNextToken} |->
                      IF x = dbNextToken
                        THEN [username |-> username, usage_count |-> 0,
                              max_usage |-> MAX_USAGE, expires_at |-> now + TOKEN_LIFETIME]
                        ELSE authTokens[x]]
  /\ dbNextToken' = dbNextToken + 1
  /\ UNCHANGED <<sweepRestVars, now, sweep>>

\* one request through authenticate, alone: validateToken deletes the row it
\* rejects, and incrementTokenUsage follows when it accepts
authenticate_alone(token) ==
  /\ variant = "sweep"
  /\ token \in DOMAIN authTokens
  /\ authTokens' = IF ValidateDecision(authTokens[token], now) = "valid"
                     THEN IncrementUsage(authTokens, token)
                     ELSE DeleteToken(authTokens, token)
  /\ UNCHANGED <<sweepRestVars, now, dbNextToken, sweep>>

\* a sweep that looks at the expiry time only
CleanupDeletesTimeOnly(row, t) == row.expires_at < t

\* cleanupExpiredTokens: WHERE expires_at < NOW() OR usage_count >= max_usage
CleanupDeletes(row, t) ==
  row.expires_at < t \/ row.usage_count >= row.max_usage

\* cleanupExpiredTokens: DELETE FROM auth_tokens WHERE ...
cleanupExpiredTokens ==
  /\ variant = "sweep"
  /\ LET kept == {x \in DOMAIN authTokens : ~CleanupDeletes(authTokens[x], now)} IN
     /\ authTokens' = [x \in kept |-> authTokens[x]]
     /\ sweep' = [ran |-> TRUE, at |-> now, before |-> authTokens,
                  after |-> [x \in kept |-> authTokens[x]]]
  /\ UNCHANGED <<sweepRestVars, now, dbNextToken>>

\* ------------------------------------------------------------ behaviours
Init ==
  /\ variant \in {"jwt", "db", "gate", "app", "regex", "page", "params", "exec", "rate",
                   "audit", "errors", "sweep"}
  /\ now = 0
  /\ tokenStore = << >>
  /\ memStat = << >>
  /\ memIssued = 0
  /\ memRevoked = {}
  /\ memLast = [op |-> "none", token |-> Garbage, outcome |-> "ok",
                remaining |-> -1]
  /\ authEnv \in AuthEnvValues(variant)
  /\ authEnabled = (authEnv = "true")
  /\ users = [u \in Usernames |->
               IF u = "root"
                 THEN [username |-> u, isAdmin |-> TRUE, permissions |-> Permissions]
                 ELSE [username |-> u, isAdmin |-> FALSE,
                       permissions |-> {"search", "download"}]]
  /\ authTokens = IF variant = "app" THEN AppTokens ELSE << >>
  /\ dbNextToken = IF variant = "app" THEN 3 ELSE 1
  /\ procs = [p \in Procs |-> Idle]
  /\ dbRequests = 0
  /\ dbAuthed = [t \in 0..MaxTokens |-> 0]
  /\ dbRevoked = {}
  /\ dbCascaded = {}
  /\ gate = GateIdle
  /\ rateHits = [limiter \in {"globalRateLimiter", "uploadRateLimiter"} |-> 0]
  /\ app = AppIdle
  /\ maxPatternLength \in (IF variant = "regex" THEN {ShortMaxLength, LongMaxLength}
                                                ELSE {LongMaxLength})
  /\ regex \in {RegexReceived(pattern) :
                  pattern \in (IF variant = "regex" THEN RegexInputs ELSE {<< >>})}
  /\ artifacts \in (IF variant = "page" THEN Datasets ELSE {<< >>})
  /\ queries \in (IF variant = "page" THEN QueryLists ELSE {<< >>})
  /\ pagination \in (IF variant = "page" THEN PaginationConfigs
                     ELSE IF variant = "params" THEN ParamsConfigs
                     ELSE {[defaultPageSize |-> MaxPageSize, maxPageSize |-> MaxPageSize,
                            maxTotalResults |-> MaxArtifacts]})
  /\ page = PageIdle
  /\ exec = [e \in Execs |-> ExecIdle]
  /\ pool = [c \in Clients |-> ClientIdle]
  /\ storeUp = TRUE
  /\ rateLimiter \in (IF variant = "rate" THEN Limiters ELSE {"globalRateLimiter"})
  /\ limiterStore = [ip \in IPs |-> 0]
  /\ rateCalls = [ip \in IPs |-> NoCalls]
  /\ rateLast = NoCall
  /\ registry = << >>
  /\ auditLog = << >>
  /\ mutation = NoMutation
  /\ nodeEnv \in (IF variant = "errors" THEN NodeEnvs ELSE {"unset"})
  /\ failures = [prev |-> NoFailure, last |-> NoFailure]
  /\ sweep = NoSweep

MemIssue == \E id \in MemIds, role \in MemRoles : issueToken(id, role)

MemVerify == \E token \in (DOMAIN memStat) \cup {Garbage} : verifyAndConsume(token)

MemRevoke == \E token \in DOMAIN memStat : revokeToken(token)

NextMem == MemIssue \/ MemVerify \/ MemRevoke \/ Tick

InitMem == Init /\ variant = "jwt"

SpecMem == InitMem /\ [][NextMem]_vars

DbStart ==
  \E p \in Procs, kind \in {"login", "gated"} :
    \E arg \in RouteArgs(kind), hdr \in {NoHeader, UnknownToken} \cup (1 .. dbNextToken - 1) :
      StartRequest(p, kind, arg, hdr)

DbOpen ==
  \E p \in Procs, route \in GuardedRoutes :
    \E arg \in RouteArgs(route) : authenticate_disabled(p, route, arg)

DbStep ==
  \E p \in Procs :
    \/ validateToken_select(p)
    \/ validateToken_check(p)
    \/ validateToken_delete(p)
    \/ incrementTokenUsage(p)
    \/ \E route \in GuardedRoutes : \E arg \in RouteArgs(route) :
         authenticate_findUser(p, route, arg)
    \/ logout_deleteToken(p)
    \/ deleteUser_find(p)
    \/ deleteUser_tokens(p)
    \/ deleteUser_user(p)
    \/ \E passwordOk \in BOOLEAN : login_verifyPassword(p, passwordOk)
    \/ login_createToken(p)

NextDb == DbStart \/ DbOpen \/ DbStep \/ Tick

InitDb == Init /\ variant = "db"

SpecDb == InitDb /\ [][NextDb]_vars

GateStart ==
  \E mw \in {"requirePermission", "requireAdmin", "hasPermission"} :
    \E user \in UserRecords \cup {NoRow}, permission \in Permissions :
      GateArrive(mw, user, permission)

GateOptional == \E hdr \in {NoHeader, EmptyBearer, UnknownToken} : OptionalArrive(hdr)

NextGate ==
  \/ GateStart
  \/ requirePermission
  \/ requireAdmin
  \/ hasPermission
  \/ GateOptional
  \/ optionalAuthenticate

InitGate == Init /\ variant = "gate"

SpecGate == InitGate /\ [][NextGate]_vars

AppStart ==
  \E route \in AppRoutes, hdr \in {NoHeader, UnknownToken} \cup (1 .. 2) :
    \E tooLarge \in BOOLEAN : AppArrive(route, hdr, tooLarge)

AppLimit ==
  \E limiter \in {"globalRateLimiter", "uploadRateLimiter"} :
    RateLimit(limiter) \/ RateWindowElapsed(limiter)

NextApp ==
  \/ AppStart
  \/ AppLimit
  \/ enforceUploadSize
  \/ app_authenticate
  \/ app_requirePermission
  \/ app_requireAdmin
  \/ app_handler
  \/ Tick

InitApp == Init /\ variant = "app"

SpecApp == InitApp /\ [][NextApp]_vars

NextRegex == validateRegexPattern \/ searchByRegex

InitRegex == Init /\ variant = "regex"

SpecRegex == InitRegex /\ [][NextRegex]_vars

PageFirst == \E db \in DbOutcomes : enumerate_first(db)

PageNext == \E db \in DbOutcomes : enumerate_next(db)

PageAt == \E offsetStr \in OffsetStrings, db \in DbOutcomes : enumerate_at(offsetStr, db)

NextPage == PageFirst \/ PageNext \/ PageAt

InitPage == Init /\ variant = "page"

SpecPage == InitPage /\ [][NextPage]_vars

NextParams ==
  \E offsetStr \in ParamsOffsetStrings, customLimit \in CustomLimits :
    getPaginationParams(offsetStr, customLimit)

InitParams == Init /\ variant = "params"

SpecParams == InitParams /\ [][NextParams]_vars

ExecCall == \E e \in Execs : executeWithTimeout(e)

ExecGetClient == \E e \in Execs : exec_getClient(e)

ExecGetClientTimeout == \E e \in Execs : exec_getClientTimeout(e)

ExecSetAnswered == \E e \in Execs, ok \in BOOLEAN : exec_setAnswered(e, ok)

ExecQueryAnswered == \E e \in Execs, answer \in QueryAnswers : exec_queryAnswered(e, answer)

ExecResetAnswered == \E e \in Execs, ok \in BOOLEAN : exec_resetAnswered(e, ok)

ExecReturn == \E e \in Execs : exec_return(e)

\* the steps of executeWithTimeout itself and of the store while it answers
ExecStep ==
  \/ ExecCall
  \/ ExecGetClient
  \/ ExecGetClientTimeout
  \/ ExecSetAnswered
  \/ ExecQueryAnswered
  \/ ExecResetAnswered
  \/ ExecReturn

NextExec == ExecStep \/ store_hangs \/ store_recovers

InitExec == Init /\ variant = "exec"

SpecExec == InitExec /\ [][NextExec]_vars

\* Node runs every continuation whose promise has settled, the pool's
\* connection timer fires, and a store that is up again and again answers
\* the statement it was sent; nothing makes a hung store recover
SpecExecFair ==
  /\ SpecExec
  /\ \A e \in Execs :
       /\ WF_vars(exec_getClient(e))
       /\ WF_vars(exec_getClientTimeout(e))
       /\ SF_vars(\E ok \in BOOLEAN : exec_setAnswered(e, ok))
       /\ SF_vars(\E answer \in QueryAnswers : exec_queryAnswered(e, answer))
       /\ SF_vars(\E ok \in BOOLEAN : exec_resetAnswered(e, ok))
       /\ WF_vars(exec_return(e))

RateCall ==
  \E caller \in Callers, route \in RateRoutes : rateLimit(caller[1], caller[2], route)

RateWindow == \E keys \in {{ip} : ip \in IPs} \cup {IPs} : rate_windowElapsed(keys)

NextRate == RateCall \/ RateWindow

InitRate == Init /\ variant = "rate"

SpecRate == InitRate /\ [][NextRate]_vars

AuditCreate ==
  \E subject \in AuditSubjects, type \in ArtifactTypes, hasUrl \in BOOLEAN,
     quality \in {"ok", "low", "throws"}, id \in ArtifactIds,
     answer \in {"ok", "23505", "08006"}, declared \in BOOLEAN :
    createArtifact(subject, type, hasUrl, quality, id, answer, declared)

AuditUpdate ==
  \E subject \in AuditSubjects, type \in ArtifactTypes, id \in ArtifactIds,
     bodyMatches \in BOOLEAN, answer \in {"ok", "08006"} :
    updateArtifact(subject, type, id, bodyMatches, answer)

AuditDelete ==
  \E subject \in AuditSubjects, type \in ArtifactTypes, id \in ArtifactIds,
     answer \in {"ok", "08006"} :
    deleteArtifact(subject, type, id, answer)

NextAudit == AuditCreate \/ AuditUpdate \/ AuditDelete

InitAudit == Init /\ variant = "audit"

SpecAudit == InitAudit /\ [][NextAudit]_vars

ErrorsFail ==
  \E method \in WrappedMethods \cup BareMethods, code \in UnexpectedCodes :
    errorHandler(method, code)

NextErrors == ErrorsFail

InitErrors == Init /\ variant = "errors"

SpecErrors == InitErrors /\ [][NextErrors]_vars

SweepCreate == \E username \in Usernames : createToken(username)

SweepAuthenticate == \E token \in 1 .. MaxTokens : authenticate_alone(token)

NextSweep == SweepCreate \/ SweepAuthenticate \/ cleanupExpiredTokens \/ Tick

InitSweep == Init /\ variant = "sweep"

SpecSweep == InitSweep /\ [][NextSweep]_vars

\* the two token stores side by side
NextStores == NextMem \/ NextDb

InitStores == Init /\ variant \in {"jwt", "db"}

SpecStores == InitStores /\ [][NextStores]_vars

Next ==
  \/ NextMem
  \/ NextDb
  \/ NextGate
  \/ NextApp
  \/ NextRegex
  \/ NextPage
  \/ NextParams
  \/ NextExec
  \/ NextRate
  \/ NextAudit
  \/ NextErrors
  \/ NextSweep

Spec == Init /\ [][Next]_vars

\* ------------------------------------------------------------ properties
Min(a, b) == IF a < b THEN a ELSE b

\* token t was issued, not revoked since, and its JWT is unexpired at time at
Undisturbed(token, at) ==
  /\ token \in DOMAIN memStat
  /\ ~memStat[token].revoked
  /\ JwtVerify(token, at) = "ok"

\* C1: for a token issued with a budget of N = MAX_REQUESTS uses and not
\* expired (nor revoked), the verifyAndConsume calls made on it since its
\* issue succeed exactly min(calls, N) times, never more than N times, and
\* call number N+1 throws the usage-limit error TokenUsageExceeded.
C1_ExactlyNSucceed ==
  /\ \A token \in DOMAIN memStat :
        /\ memStat[token].ok <= MAX_REQUESTS
        /\ Undisturbed(token, now) =>
              memStat[token].ok = Min(memStat[token].calls, MAX_REQUESTS)
  /\ ( /\ memLast.op = "verifyAndConsume"
       /\ Undisturbed(memLast.token, now)
       /\ memStat[memLast.token].calls = MAX_REQUESTS + 1 )
     => memLast.outcome = "TokenUsageExceeded"

\* 2N calls were made on an undisturbed token; the last was call N+1 or later
C1_Witness ==
  \E token \in DOMAIN memStat :
    /\ Undisturbed(token, now)
    /\ memStat[token].calls = 2 * MAX_REQUESTS
    /\ memStat[token].ok = MAX_REQUESTS

\* C2: database path: under any interleaving of requests presenting one
\* token, the number of requests authenticate lets through with that token
\* never exceeds the token's max_usage.
C2_AuthenticatedWithinBudget ==
  \A token \in 1 .. MaxTokens : dbAuthed[token] <= MAX_USAGE

\* C3: a token's remaining uses are never negative: remaining >= 0 in the
\* in-memory store, usage_count <= max_usage in the database store.
C3_RemainingNonNegative ==
  /\ \A token \in DOMAIN tokenStore : tokenStore[token].remaining >= 0
  /\ \A token \in DOMAIN authTokens :
        authTokens[token].usage_count <= authTokens[token].max_usage

\* C4: a validation made at a time now >= expiresAt, the instant
\* now = expiresAt included, rejects the stored token as expired whatever
\* uses remain (in-memory: throws TokenExpiredError; database: validateToken
\* takes the expired branch).
C4_ExpiredFromExpiryOn ==
  [][ /\ \A token \in DOMAIN tokenStore :
           (verifyAndConsume(token) /\ now >= tokenStore[token].expiresAt)
             => memLast'.outcome = "TokenExpiredError"
      /\ \A p \in Procs :
           (validateToken_check(p) /\ now >= procs[p].tokenData.expires_at)
             => procs'[p].pc = "validateToken_delete" ]_vars

C6_ExpiredRecordDeletedAtAccess ==
  [][ /\ \A token \in DOMAIN tokenStore :
           (verifyAndConsume(token) /\ now > tokenStore[token].expiresAt)
             => token \notin DOMAIN tokenStore'
      /\ \A p \in Procs :
           (validateToken_check(p) /\ now > procs[p].tokenData.expires_at)
             => procs'[p].pc = "validateToken_delete" ]_vars

\* C7: once revokeToken / logout's deleteToken has completed for a token,
\* every later validation of that token fails.
C7_RevokedStaysInvalid ==
  [][ /\ \A token \in memRevoked :
           verifyAndConsume(token) => memLast'.outcome # "ok"
      /\ \A p \in Procs :
           (validateToken_select(p) /\ procs[p].token \in dbRevoked)
             => procs'[p].pc = "idle" ]_vars

\* C8: no token is owned by a user that has no account: once DELETE FROM
\* users has run for a user, auth_tokens holds no row of that user, a login
\* interleaved with the deletion included, so no such token can be read by
\* validateToken.
C8_NoTokenOfDeletedUser ==
  \A token \in DOMAIN authTokens : authTokens[token].username \in DOMAIN users

\* a login put a token in between deleteAllUserTokens and the DELETE of the user
C8_Witness ==
  \E u \in dbCascaded : u \notin DOMAIN users

\* C9: requirePermission and UserService.hasPermission allow exactly when
\* the permission set holds 'admin' or the required permission.
C9_AllowIffAdminOrMember ==
  ( /\ gate.pc = "done"
    /\ gate.mw \in {"requirePermission", "hasPermission"}
    /\ gate.user # NoRow )
  => ( gate.next <=> \/ "admin" \in gate.user.permissions
                     \/ gate.permission \in gate.user.permissions )

\* a subject holding admin but not the required permission itself was let through
C9_Witness ==
  /\ gate.pc = "done"
  /\ gate.mw = "requirePermission"
  /\ gate.user # NoRow
  /\ gate.user.permissions = {"admin"}
  /\ gate.permission = "upload"
  /\ gate.next

\* C10: a request of an authenticated subject that requirePermission or
\* requireAdmin rejects is answered with status 403.
C10_DeniedIs403 ==
  ( /\ gate.pc = "done"
    /\ gate.mw \in {"requirePermission", "requireAdmin"}
    /\ gate.user # NoRow
    /\ ~gate.next )
  => gate.status = 403

\* C11: a request that is answered 429 has not consumed a use of the token
\* it presented: on every route the rate-limit checks come before
\* authenticate's validation and consumption.
C11_RateLimitBeforeConsume ==
  (app.pc = "done" /\ app.status = 429) => ~app.consumed

\* C12: each gate stage (authenticate, requirePermission, requireAdmin)
\* either sends exactly one rejection and ends the request without calling
\* the next stage, or calls the next stage once and sends nothing; the route
\* handler runs only when every stage of the route's chain has accepted and
\* nothing was sent before.
C12_StagesShortCircuit ==
  [][ /\ \A stage \in {"authenticate", "requirePermission", "requireAdmin"} :
           (AppAt(stage) /\ app' # app) =>
              \/ /\ app'.sent = app.sent + 1
                 /\ app'.pc = "done"
                 /\ app'.passed = app.passed
                 /\ ~app'.handled
              \/ /\ app'.sent = app.sent
                 /\ app'.pc = "run"
                 /\ app'.passed = Append(app.passed, stage)
      /\ app_handler => (app.sent = 0 /\ app.passed = AppChain(app.route)) ]_vars

\* requireAdmin turned down a request that authenticate had accepted
C12_Witness ==
  /\ app.pc = "done"
  /\ app.route = "deleteArtifact"
  /\ app.status = 401
  /\ app.sent = 1
  /\ app.passed = <<"globalRateLimiter", "enforceUploadSize", "authenticate">>
  /\ ~app.handled

\* C13: a request carries a user identity only when the token it presented
\* is one the token store holds and validated: authenticate attaches req.user
\* only after taking a use of the token, and optionalAuthenticate attaches
\* one only for a token of the store.
C13_IdentityOnlyFromValidatedToken ==
  /\ app.user # NoRow => app.consumed
  /\ ( /\ gate.pc = "done"
       /\ gate.mw = "optionalAuthenticate"
       /\ gate.user # NoRow )
     => gate.hdr \in DOMAIN authTokens

\* C14: with AUTH_ENABLED absent from the environment (the default), a route
\* handler runs only for a request whose token authenticate validated.
C14_DefaultEnforcesAuth ==
  (authEnv = "unset" /\ app.handled) => app.consumed

\* the checks of validateRegexPattern, each on its own, in the documented order
CheckOrder == <<"empty", "tooLong", "syntax", "unsafeBacktracking", "unsafeAlternation">>

Violates(check, pattern, maxLength) ==
  IF check = "empty" THEN IsBlank(pattern)
  ELSE IF check = "tooLong" THEN Len(pattern) > maxLength
  ELSE IF check = "syntax" THEN ~ValidSyntax(pattern)
  ELSE IF check = "unsafeBacktracking" THEN ~SafeRegex(pattern)
  ELSE QuantifiedAlternation(pattern)

\* C15: validateRegexPattern reports the earliest violated check in the
\* order empty, too long, invalid syntax, unsafe by the backtracking
\* heuristic, unsafe by the quantified-alternation check; it returns only
\* when no check is violated.
C15_FirstViolationWins ==
  (regex.pc = "done" /\ regex.op = "validateRegexPattern") =>
    LET bad == {n \in 1 .. Len(CheckOrder) :
                  Violates(CheckOrder[n], regex.pattern, maxPatternLength)}
    IN IF bad = {} THEN regex.error = "ok"
       ELSE \E n \in bad : /\ \A m \in bad : n <= m
                           /\ regex.error = CheckOrder[n]

\* a blank pattern longer than the maximum was reported as empty
C15_Witness ==
  /\ regex.pc = "done"
  /\ regex.op = "validateRegexPattern"
  /\ IsBlank(regex.pattern)
  /\ Len(regex.pattern) > maxPatternLength
  /\ regex.error = "empty"

\* validateRegexPattern has run on the pattern
Validated == regex.pc = "done" /\ regex.op = "validateRegexPattern"

\* C16 as stated: every pattern longer than the configured maximum is
\* rejected with the too-long error, whatever its characters.
C16_TooLongWhateverContent ==
  (Validated /\ Len(regex.pattern) > maxPatternLength) => regex.error = "tooLong"

\* C16 amended: a pattern longer than the configured maximum is rejected
\* with the too-long error whatever its structure (valid or not, safe or
\* not), unless it consists of whitespace only: a blank pattern of any
\* length is rejected as empty, because the empty check comes first.
C16_TooLongUnlessBlank ==
  (Validated /\ Len(regex.pattern) > maxPatternLength) =>
    regex.error = IF IsBlank(regex.pattern) THEN "empty" ELSE "tooLong"

\* a pattern that is too long and malformed as well was reported as too long
C16_Witness ==
  /\ Validated
  /\ Len(regex.pattern) > maxPatternLength
  /\ ~ValidSyntax(regex.pattern)
  /\ regex.error = "tooLong"

UnsafeErrors == {"unsafeBacktracking", "unsafeAlternation"}

\* C17: within the length limit, (a+)+, (a*)* and (x+x+)+y are rejected as
\* unsafe; a+, bert and .*bert.* are accepted.
C17_DocumentedPatterns ==
  (Validated /\ Len(regex.pattern) <= maxPatternLength) =>
    /\ regex.pattern \in { <<"(", "a", "+", ")", "+">>,
                           <<"(", "a", "*", ")", "*">>,
                           <<"(", "x", "+", "x", "+", ")", "+", "y">> }
         => regex.error \in UnsafeErrors
    /\ regex.pattern \in { <<"a", "+">>,
                           <<"b", "e", "r", "t">>,
                           <<".", "*", "b", "e", "r", "t", ".", "*">> }
         => regex.error = "ok"

\* (x+x+)+y was validated within the length limit and rejected
C17_Witness ==
  /\ Validated
  /\ regex.pattern = <<"(", "x", "+", "x", "+", ")", "+", "y">>
  /\ regex.error = "unsafeBacktracking"

\* C18: every well-formed pattern (within the length limit) in which a group
\* with an alternation at its top level is directly followed by a quantifier
\* is rejected as unsafe, groups with nested groups or escaped parentheses
\* included.
C18_NoFalseNegative ==
  ( /\ Validated
    /\ Len(regex.pattern) <= maxPatternLength
    /\ ValidSyntax(regex.pattern)
    /\ Scan(regex.pattern, 1, ScanStart).quantAlt )
  => regex.error \in UnsafeErrors

\* the response searchByRegex gives for a pattern
RegexResponse(pattern, maxLength) ==
  LET error == ValidateRegexPattern(pattern, maxLength) IN
  [status |-> IF error = "ok" THEN 200 ELSE 400,
   message |-> IF error = "ok" THEN <<"none">>
               ELSE <<"Invalid regex pattern: ", ErrorMessage(error)>>]

\* C19: the response to a pattern rejected as unsafe is the same in status
\* and message as the response to any other pattern rejected as unsafe,
\* whichever check rejected it.
C19_UnsafeResponseIsGeneric ==
  ( /\ regex.pc = "done"
    /\ regex.op = "searchByRegex"
    /\ regex.error \in UnsafeErrors )
  => \A other \in NamedPatterns :
       ValidateRegexPattern(other, maxPatternLength) \in UnsafeErrors =>
         /\ RegexResponse(other, maxPatternLength).status = regex.status
         /\ RegexResponse(other, maxPatternLength).message = regex.message
\* the full result set of the queries in (name, id) order
FullResult == Ordered(artifacts, Matching(artifacts, queries))

\* the pages of the walk so far are the start of the full result set, a page
\* with more to come is full and names the offset after it, and the page
\* without more to come completes the result set and names no offset
PagesPartition ==
  /\ page.res.status = 200
  /\ page.delivered = SubSeq(FullResult, 1, Len(page.delivered))
  /\ Len(page.delivered) = page.res.offset + Len(page.res.items)
  /\ page.res.hasMore =>
       /\ Len(page.res.items) = page.res.limit
       /\ page.res.limit >= 1
       /\ page.res.offsetHeader = ToDecimal(page.res.offset + page.res.limit)
  /\ ~page.res.hasMore =>
       /\ page.res.offsetHeader = NoOffset
       /\ page.delivered = FullResult

\* the estimate admits the queries
Admitted ==
  EstimateResultCount(artifacts, queries, pagination.maxTotalResults, FALSE)
    <= pagination.maxTotalResults

\* C20 as stated: for every dataset and every non-empty query list, the
\* requests of a walk from offset 0 along the returned nextOffset, the
\* database answering, return pages whose concatenation is the full result
\* set in (name, id) order, and the last has hasMore=false and nextOffset=null
C20_EveryWalkPartitions ==
  (page.inWalk /\ queries # << >> /\ page.res.db = "ok") => PagesPartition

\* C20 amended: the same for the walks whose queries the estimate admits
\* (estimateResultCount <= maxTotalResults); other walks are answered 413
C20_AdmittedWalkPartitions ==
  (page.inWalk /\ queries # << >> /\ page.res.db = "ok") =>
    IF Admitted THEN PagesPartition ELSE page.res.status = 413

\* a walk of several pages over a union of queries has reached its last page
C20_Witness ==
  /\ page.inWalk
  /\ page.res.status = 200
  /\ ~page.res.hasMore
  /\ page.pages >= 2
  /\ Len(queries) >= 2
  /\ Len(page.delivered) >= 3

\* C21: the fetch query of an answered page request asks the data store for
\* exactly limit + 1 rows.
C21_FetchAsksLimitPlusOne ==
  page.res.status = 200 => page.res.sqlLimit = page.res.limit + 1

\* C22: every PaginationParams value produced by getPaginationParams has
\* offset >= 0 and limit <= config.pagination.maxPageSize.
C22_ParamsWithinBounds ==
  ~page.params.error =>
    /\ page.params.offset >= 0
    /\ page.params.limit <= pagination.maxPageSize

\* an offset parameter that is present and is negative or not a number
BadOffset(offsetStr) ==
  /\ offsetStr # NoOffset
  /\ offsetStr # << >>
  /\ ParseInt(offsetStr).nan \/ ParseInt(offsetStr).value < 0

\* C23: an enumerate request with a valid body and a bad offset is answered
\* with a client error (status 400..499), never with 500.
C23_BadOffsetIsClientError ==
  (page.res.status # 0 /\ queries # << >> /\ BadOffset(page.res.offsetStr)) =>
    page.res.status \in 400 .. 499

\* C24: the estimate is computed and checked before the fetch: a request
\* whose estimate exceeds maxTotalResults is answered 413 without the fetch
\* query being executed, and every request that executed the fetch query had
\* an estimate within maxTotalResults.
C24_EstimateCheckedBeforeFetch ==
  /\ (page.res.estimate # NoEstimate /\ page.res.estimate > pagination.maxTotalResults) =>
       /\ page.res.status = 413
       /\ page.res.sqlLimit = 0
       /\ page.res.items = << >>
  /\ page.res.sqlLimit # 0 =>
       /\ page.res.estimate # NoEstimate
       /\ page.res.estimate <= pagination.maxTotalResults

\* a request whose count queries answered was rejected on its estimate
C24_Witness ==
  /\ page.res.db = "ok"
  /\ page.res.estimate > pagination.maxTotalResults
  /\ page.res.status = 413
  /\ page.res.sqlLimit = 0

\* C25: whenever the estimate of a request was computed, count queries
\* failing or not, and the union of the queries selects more than
\* maxTotalResults distinct rows, the estimate exceeds maxTotalResults too.
C25_EstimateNeverUnderCounts ==
  (page.res.estimate # NoEstimate /\ queries # << >>) =>
    (Cardinality(Matching(artifacts, queries)) > pagination.maxTotalResults
       => page.res.estimate > pagination.maxTotalResults)

\* a union of named queries selecting more than maxTotalResults rows has
\* been estimated by the per-query counts
C25_Witness ==
  /\ page.res.estimate # NoEstimate
  /\ page.res.db = "ok"
  /\ Len(queries) >= 2
  /\ \A n \in 1 .. Len(queries) : queries[n] # "*"
  /\ Cardinality(Matching(artifacts, queries)) > pagination.maxTotalResults

\* the request was rejected because of its size: the offset is too deep or
\* the estimate exceeds maxTotalResults
RejectedAsTooLarge ==
  /\ page.res.status # 0
  /\ page.res.sqlLimit = 0
  /\ queries # << >>
  /\ ~BadOffset(page.res.offsetStr)

C27_QueryAlwaysCompletes ==
  \A e \in Execs : (exec[e].pc = "query") ~> (exec[e].pc = "done")

\* the calls the key made in its current window
CallsInWindow(ip) == SumCalls(rateCalls[ip].calls, Pairs)

\* C28: in every window of every key the limiter has admitted the first L
\* calls and no other (admitted = min(calls, L)); a call answered 429 is a
\* call past the L-th, and an admitted call is one of the first L, which
\* includes the first calls after the window has elapsed.
C28_ExactlyLPerWindow ==
  /\ \A ip \in IPs :
       rateCalls[ip].admitted = Min(CallsInWindow(ip), RateMax(rateLimiter))
  /\ rateLast # NoCall =>
       (rateLast.status = 429 <=> CallsInWindow(rateLast.ip) > RateMax(rateLimiter))

\* a key that was rejected in an earlier window is admitted again
C28_Witness ==
  /\ rateLast # NoCall
  /\ rateLast.status = 0
  /\ rateCalls[rateLast.ip].pastRejected
  /\ \E ip \in IPs :
       /\ CallsInWindow(ip) = RateMax(rateLimiter) + MaxRejected
       /\ rateCalls[ip].admitted = RateMax(rateLimiter)

\* C29: the budget is per (subject, route): a request is rejected only when
\* its own subject has made more than L calls to its own route in the window.
C29_BudgetPerSubjectAndRoute ==
  (rateLast # NoCall /\ rateLast.status = 429) =>
    rateCalls[rateLast.ip].calls[<<rateLast.subject, rateLast.route>>]
      > RateMax(rateLimiter)

\* C30: every create, update or delete attempt that reached its handler,
\* successful or failed, has produced exactly one audit event, and the event
\* of the last attempt carries its action, subject and success flag.
C30_OneAuditEventPerAttempt ==
  /\ Len(auditLog) = mutation.seq
  /\ mutation.seq > 0 =>
       /\ auditLog[mutation.seq].action = mutation.action
       /\ auditLog[mutation.seq].subject = mutation.subject
       /\ auditLog[mutation.seq].success = mutation.success

\* a handled request whose query failed
Failed(f) == f.method # "none"

\* C31: the response to an unexpected store failure is generic: two such
\* failures get the same body whatever the store's error was, and the body
\* holds neither the store's message nor a stack trace, in every NODE_ENV.
C31_StoreFailureIsGeneric ==
  /\ Failed(failures.last) =>
       /\ failures.last.response.body.message # StoreFailure(failures.last.code).message
       /\ failures.last.response.body.stack = NoStack
  /\ Failed(failures.prev) /\ Failed(failures.last) =>
       failures.prev.response.body = failures.last.response.body

\* a request completes incrementTokenUsage on token tok in this step
Consuming(tok) ==
  \E p \in Procs : /\ procs[p].pc = "incrementTokenUsage"
                   /\ procs'[p].pc # "incrementTokenUsage"
                   /\ procs[p].token = tok

\* the worker's token has just passed validateToken
PassesValidation(p) ==
  /\ procs[p].pc = "validateToken_check"
  /\ ValidateDecision(procs[p].tokenData, now) = "valid"

C33_AdminGatesAgree ==
  (gate.pc = "done" /\ gate.user \in UserRecords) =>
    /\ gate.mw = "requireAdmin" =>
         (gate.next <=> RequirePermission(gate.user, "admin") = 0)
    /\ (gate.mw = "requirePermission" /\ gate.permission = "admin") =>
         (gate.next <=> RequireAdmin(gate.user) = 0)

\* C34: a client acquired by executeWithTimeout is released exactly once on
\* every path: a client is out of the pool only while the call that acquired
\* it is between its getClient and the end of its finally block.
C34_ClientReleasedOnEveryPath ==
  \A c \in Clients :
    \/ pool[c].holder = NoClient
    \/ /\ pool[c].holder \in Execs
       /\ exec[pool[c].holder].client = c
       /\ exec[pool[c].holder].pc \in {"set", "query", "reset"}

\* C35: in the regex-search path the query is issued only for a pattern that
\* validateRegexPattern accepted in the same request; a pattern it rejects
\* (empty, too long, invalid, unsafe) never reaches ArtifactsService.searchByRegex.
C35_QueryOnlyForValidatedPattern ==
  /\ regex.query # NoQuery =>
       /\ regex.op = "searchByRegex"
       /\ regex.query = regex.pattern
       /\ ValidateRegexPattern(regex.pattern, maxPatternLength) = "ok"
  /\ (regex.pc = "done" /\ regex.op = "searchByRegex"
        /\ ValidateRegexPattern(regex.pattern, maxPatternLength) # "ok") =>
       /\ regex.query = NoQuery
       /\ regex.status = 400

\* a search request whose pattern is too long was answered without a query
C35_Witness ==
  /\ regex.pc = "done"
  /\ regex.op = "searchByRegex"
  /\ ValidateRegexPattern(regex.pattern, maxPatternLength) = "tooLong"
  /\ regex.query = NoQuery

\* C36: the maintenance sweep and the validator use the same validity
\* predicate: of the rows a cleanupExpiredTokens run found, it deleted
\* exactly those validateToken would have rejected at that instant as
\* expired or exhausted.
C36_SweepDeletesWhatValidatorRejects ==
  sweep.ran =>
    \A tok \in DOMAIN sweep.before :
      (tok \notin DOMAIN sweep.after)
        <=> (ValidateDecision(sweep.before[tok], sweep.at) \in {"time", "usage"})

\* a sweep removed an exhausted, unexpired token and kept a valid one
C36_Witness ==
  /\ sweep.ran
  /\ \E tok \in DOMAIN sweep.before :
       /\ tok \notin DOMAIN sweep.after
       /\ ValidateDecision(sweep.before[tok], sweep.at) = "usage"
  /\ \E tok \in DOMAIN sweep.before : tok \in DOMAIN sweep.after

====
